---- MODULE Spec2Model ----
(***************************************************************************)
(* Verification model of the Qontrol host driver (qontrol.py) and of its   *)
(* device simulator (virtual_module.py).                                   *)
(*                                                                         *)
(* Part 1, command codec: the Header flags, the HeaderMode combinations,   *)
(* the CmdIndex catalog and the Command value object with its methods      *)
(* __post_init__, type, ascii, _format_ascii_data, binary and allowed,     *)
(* together with the legacy reference encoders kept in test.py.            *)
(*                                                                         *)
(* Python values are modelled as tagged records (PyNone, PyInt, PyStr,     *)
(* PyList); text is a sequence of one-character strings and a byte string  *)
(* is a sequence of integers 0..255, so that formatting and packing are    *)
(* computed, character by character and byte by byte, as the code does.    *)
(***************************************************************************)
EXTENDS Integers, Sequences, FiniteSets, TLC

VARIABLES
    header_arg, \* the header argument the Command was constructed with
    cmd0,   \* the fields of the Command right after construction
    cmd,    \* the fields of the Command now
    ret,    \* the method called last on the Command, or on a Program or a
            \* ProgramGenerator, and what it returned
    wait_for_responses, \* Qontroller.wait_for_responses
    maxlen,     \* Qontroller.log.maxlen: None or the capacity of the log
    written,    \* the byte strings written to the serial port, in order
    log,        \* Qontroller.log
    log_handler,    \* Qontroller.log_handler: None or the function that
                    \* generic_log_handler(fatal_errors) returned
    handled,    \* the entries the log handler was called with, in order
    call,       \* the arguments of the send in progress or made last, and
                \* how its encoding and transmission ended
    pc,         \* what the session is doing: "idle", "wait" in wait(), or
                \* "receive" while it
                \* is in the loop of _issue_command_receive_response
    out,        \* the lines the device has sent and the session has not
                \* read yet (the port's input buffer, VirtualModule.out)
    in_waiting, \* serial_port.in_waiting
    emitted,    \* how many lines the device has sent so far
    lines,      \* the data lines the collection loop has accumulated
    errs,       \* the errors the collection loop has accumulated
    elapsed,    \* time since the collection started (start_time)
    silent,     \* time since the loop last received something
                \* (last_message_time)
    result,     \* how the send made last ended and what it returned
    retries,    \* the retransmissions the send in progress has made
    tx0,        \* the bytes the send in progress transmitted first
    program,    \* VirtualModule.program
    cmd_cnt,    \* VirtualModule.cmd_cnt, for the command texts
    tasks       \* the threads started for the writes to the virtual port

codec_vars == <<header_arg, cmd0, cmd, ret>>
config_vars == <<wait_for_responses, maxlen>>
handler_vars == <<log_handler, handled>>
port_vars == <<out, in_waiting, emitted>>
loop_vars == <<lines, errs, elapsed, silent>>
vm_vars == <<program, cmd_cnt, tasks>>
session_vars == <<wait_for_responses, maxlen, written, log, log_handler,
                  handled, call, pc, out, in_waiting, emitted, lines, errs,
                  elapsed, silent, result, retries, tx0, program, cmd_cnt,
                  tasks>>
vars == <<header_arg, cmd0, cmd, ret, wait_for_responses, maxlen, written,
          log, log_handler, handled, call, pc, out, in_waiting, emitted,
          lines, errs, elapsed, silent, result, retries, tx0, program,
          cmd_cnt, tasks>>

----------------------------------------------------------------------------
(* Python values *)

PyNone == [k |-> "none", i |-> 0, s |-> <<>>]
PyInt(n) == [k |-> "int", i |-> n, s |-> <<>>]
PyStr(cs) == [k |-> "str", i |-> 0, s |-> cs]
PyList(l) == [k |-> "list", i |-> 0, s |-> l]
PyBytes(b) == [k |-> "bytes", i |-> 0, s |-> b]

\* Python truthiness, as used by "not x"
truthy(v) ==
    CASE v.k = "none" -> FALSE
      [] v.k = "int"  -> v.i # 0
      [] OTHER        -> Len(v.s) # 0

Digit == <<"0", "1", "2", "3", "4", "5", "6", "7", "8", "9">>

RECURSIVE int_str(_)
\* str(n) of a non-negative integer: its decimal digits
int_str(n) ==
    IF n < 10 THEN <<Digit[n + 1]>>
    ELSE int_str(n \div 10) \o <<Digit[(n % 10) + 1]>>

\* str(v) / f'{v}' of a value that is None, an int or a str
str(v) ==
    CASE v.k = "none" -> <<"N", "o", "n", "e">>
      [] v.k = "int"  -> int_str(v.i)
      [] OTHER        -> v.s

----------------------------------------------------------------------------
(* Bit operations on one byte (IntFlag arithmetic) *)

Bit(x, n) == (x \div (2 ^ n)) % 2

BitOr(a, b) ==
    LET w(n) == IF Bit(a, n) = 1 \/ Bit(b, n) = 1 THEN 2 ^ n ELSE 0
    IN  w(0) + w(1) + w(2) + w(3) + w(4) + w(5) + w(6) + w(7)

BitXor(a, b) ==
    LET w(n) == IF Bit(a, n) # Bit(b, n) THEN 2 ^ n ELSE 0
    IN  w(0) + w(1) + w(2) + w(3) + w(4) + w(5) + w(6) + w(7)

BitAnd(a, b) ==
    LET w(n) == IF Bit(a, n) = 1 /\ Bit(b, n) = 1 THEN 2 ^ n ELSE 0
    IN  w(0) + w(1) + w(2) + w(3) + w(4) + w(5) + w(6) + w(7)

\* "flag in header" for IntFlag members
In(flag, header) == BitAnd(header, flag) = flag

----------------------------------------------------------------------------
(* class Header(IntFlag) *)

BIN == 128
BCAST == 64
ALLCH == 32
ADDM == 16
RW == 8
ACT == 4
DEXT == 2

(* class Type *)
GET == "?"
SET == "="

(* class HeaderMode *)
WRITE == BIN
WRITE_DEXT == BitOr(BIN, DEXT)
WRITE_ALLCH == BitOr(BIN, ALLCH)
READ == BitOr(BIN, RW)
READ_ALLCH == BitOr(BitOr(BIN, RW), ALLCH)
ACT_M == BitOr(BIN, ACT)

HeaderMode == {WRITE, WRITE_DEXT, WRITE_ALLCH, READ, READ_ALLCH, ACT_M}

(* class CmdIndex: the catalog *)
CmdIndex ==
    { "V", "I", "VMAX", "IMAX", "VCAL", "ICAL", "VERR", "IERR", "VIP", "SR",
      "PDI", "PDP", "PDR", "GAIN", "VFULL", "IFULL", "NCHAN", "FIRMWARE",
      "ID", "LIFETIME", "NVM", "LOG", "QUIET", "LED", "NUP", "ADCT", "ADCN",
      "CCFN", "INTEST", "OK", "DIGSUP", "HELP", "SAFE", "ROCOM" }

\* CmdIndex.code()
code ==
    [ V |-> 0, I |-> 1, VMAX |-> 2, IMAX |-> 3, VCAL |-> 4, ICAL |-> 5,
      VERR |-> 6, IERR |-> 7, VIP |-> 10, SR |-> 11, PDI |-> 12, PDP |-> 13,
      PDR |-> 14, GAIN |-> 15, VFULL |-> 32, IFULL |-> 33, NCHAN |-> 34,
      FIRMWARE |-> 35, ID |-> 36, LIFETIME |-> 37, NVM |-> 38, LOG |-> 39,
      QUIET |-> 40, LED |-> 49, NUP |-> 50, ADCT |-> 51, ADCN |-> 52,
      CCFN |-> 53, INTEST |-> 54, OK |-> 55, DIGSUP |-> 56, HELP |-> 65,
      SAFE |-> 66, ROCOM |-> 67 ]

\* CmdIndex.header_modes()
header_modes ==
    [ V |-> {WRITE, WRITE_DEXT, WRITE_ALLCH, READ, READ_ALLCH},
      I |-> {WRITE, WRITE_DEXT, WRITE_ALLCH, READ, READ_ALLCH},
      VMAX |-> {WRITE, WRITE_DEXT, WRITE_ALLCH, READ, READ_ALLCH},
      IMAX |-> {WRITE, WRITE_DEXT, WRITE_ALLCH, READ, READ_ALLCH},
      VCAL |-> {WRITE, ACT_M, WRITE_ALLCH, READ, READ_ALLCH},
      ICAL |-> {WRITE, ACT_M, WRITE_ALLCH, READ, READ_ALLCH},
      VERR |-> {READ, READ_ALLCH}, IERR |-> {READ, READ_ALLCH},
      VIP |-> {READ_ALLCH}, SR |-> {}, PDI |-> {}, PDP |-> {}, PDR |-> {},
      GAIN |-> {}, VFULL |-> {READ_ALLCH}, IFULL |-> {READ_ALLCH},
      NCHAN |-> {READ_ALLCH}, FIRMWARE |-> {READ, READ_ALLCH},
      ID |-> {READ, READ_ALLCH}, LIFETIME |-> {READ, READ_ALLCH},
      NVM |-> {WRITE_ALLCH, READ_ALLCH}, LOG |-> {READ, READ_ALLCH},
      QUIET |-> {}, LED |-> {WRITE, READ, READ_ALLCH, WRITE_ALLCH},
      NUP |-> {WRITE, READ}, ADCT |-> {WRITE, READ, READ_ALLCH, WRITE_ALLCH},
      ADCN |-> {WRITE, READ, READ_ALLCH, WRITE_ALLCH},
      CCFN |-> {WRITE, READ, READ_ALLCH, WRITE_ALLCH}, INTEST |-> {ACT_M},
      OK |-> {WRITE, READ, READ_ALLCH, WRITE_ALLCH}, DIGSUP |-> {},
      HELP |-> {READ}, SAFE |-> {WRITE, READ, READ_ALLCH, WRITE_ALLCH},
      ROCOM |-> {WRITE, READ, READ_ALLCH, WRITE_ALLCH} ]

\* ExtendedEnum.__str__ of a CmdIndex member: its name
idx_str ==
    [ V |-> <<"V">>, I |-> <<"I">>, VMAX |-> <<"V", "M", "A", "X">>,
      IMAX |-> <<"I", "M", "A", "X">>, VCAL |-> <<"V", "C", "A", "L">>,
      ICAL |-> <<"I", "C", "A", "L">>, VERR |-> <<"V", "E", "R", "R">>,
      IERR |-> <<"I", "E", "R", "R">>, VIP |-> <<"V", "I", "P">>,
      SR |-> <<"S", "R">>, PDI |-> <<"P", "D", "I">>,
      PDP |-> <<"P", "D", "P">>, PDR |-> <<"P", "D", "R">>,
      GAIN |-> <<"G", "A", "I", "N">>, VFULL |-> <<"V", "F", "U", "L", "L">>,
      IFULL |-> <<"I", "F", "U", "L", "L">>,
      NCHAN |-> <<"N", "C", "H", "A", "N">>,
      FIRMWARE |-> <<"F", "I", "R", "M", "W", "A", "R", "E">>,
      ID |-> <<"I", "D">>,
      LIFETIME |-> <<"L", "I", "F", "E", "T", "I", "M", "E">>,
      NVM |-> <<"N", "V", "M">>, LOG |-> <<"L", "O", "G">>,
      QUIET |-> <<"Q", "U", "I", "E", "T">>, LED |-> <<"L", "E", "D">>,
      NUP |-> <<"N", "U", "P">>, ADCT |-> <<"A", "D", "C", "T">>,
      ADCN |-> <<"A", "D", "C", "N">>, CCFN |-> <<"C", "C", "F", "N">>,
      INTEST |-> <<"I", "N", "T", "E", "S", "T">>, OK |-> <<"O", "K">>,
      DIGSUP |-> <<"D", "I", "G", "S", "U", "P">>,
      HELP |-> <<"H", "E", "L", "P">>, SAFE |-> <<"S", "A", "F", "E">>,
      ROCOM |-> <<"R", "O", "C", "O", "M">> ]

----------------------------------------------------------------------------
(* class Command *)

\* the dataclass-generated __init__: stores the arguments as given
Command(idx, addr, addr_id, header, data) ==
    [idx |-> idx, addr |-> addr, addr_id |-> addr_id,
     header |-> header, data |-> data]

\* Command.__post_init__
post_init(self) ==
    LET h1 == BitOr(self.header, BIN)
    IN  [self EXCEPT !.header = IF ~truthy(self.data) THEN BitOr(h1, RW)
                                ELSE h1]

parity_odd_nofold(x) ==
    LET x2 == BitXor(x, x \div 4)
        x3 == BitXor(x2, x2 \div 2)
    IN  BitAnd(x3, 1)

\* Command._parity_odd
parity_odd(x) ==
    LET x1 == BitXor(x, x \div 16)
        x2 == BitXor(x1, x1 \div 4)
        x3 == BitXor(x2, x2 \div 2)
    IN  BitAnd(x3, 1)

\* Command.type
type(self) == IF In(RW, self.header) THEN GET ELSE SET

RECURSIVE join_comma(_)
\* the reduce of _format_ascii_data: s + ',' + str(x) for each further
\* element x in order (folded by halves, which yields the same text and
\* keeps the evaluation depth logarithmic in the length of the list)
join_comma(l) ==
    IF Len(l) = 0 THEN <<>>
    ELSE IF Len(l) = 1 THEN <<",">> \o int_str(l[1])
    ELSE LET h == Len(l) \div 2
         IN  join_comma(SubSeq(l, 1, h)) \o join_comma(SubSeq(l, h + 1, Len(l)))

\* Command._format_ascii_data
format_ascii_data(self) ==
    IF ~truthy(self.data) THEN <<>>
    ELSE IF self.data.k = "list"
         THEN int_str(Head(self.data.s)) \o join_comma(Tail(self.data.s))
         ELSE str(self.data)

\* Command.ascii: the object after the call and the returned line
ascii(self) ==
    LET s1 == [self EXCEPT !.addr = IF In(ALLCH, self.header)
                                    THEN PyStr(<<"A", "L", "L">>)
                                    ELSE self.addr]
        data == format_ascii_data(s1)
    IN  [self |-> s1,
         out  |-> idx_str[s1.idx] \o str(s1.addr) \o <<type(s1)>> \o data
                  \o <<"\n">>]

\* the largest value struct format 'H' accepts
USHRT_MAX == 65535

\* struct format 'H' under '>': one big-endian 16-bit word
pack_H(v) == <<v \div 256, v % 256>>

\* 'H' * n under '>': the words of a list, two bytes each, in order
pack_words_le(ws) ==
    [k \in 1..(2 * Len(ws)) |->
        IF k % 2 = 1 THEN ws[(k + 1) \div 2] % 256 ELSE ws[k \div 2] \div 256]

pack_words(ws) ==
    [k \in 1..(2 * Len(ws)) |->
        IF k % 2 = 1 THEN ws[(k + 1) \div 2] \div 256 ELSE ws[k \div 2] % 256]

\* Command.binary, "Handle addressing modes": the outcome of building and
\* packing the address and its three bytes
binary_addr_pad(self) ==
    [status |-> IF self.addr.k = "int" /\ self.addr.i <= USHRT_MAX
                THEN "ok" ELSE "struct.error",
     out |-> <<0>> \o pack_H(self.addr.i)]

binary_addr(self) ==
    IF In(ADDM, self.header)
    THEN [status |-> IF self.addr.k # "int" THEN "TypeError"
                     ELSE IF self.addr.i > 255 THEN "ValueError"
                     ELSE "ok",
          out |-> pack_H(self.addr_id) \o <<self.addr.i>>]
    ELSE [status |-> IF self.addr.k = "int" /\ self.addr.i <= USHRT_MAX
                     THEN "ok" ELSE "struct.error",
          out |-> <<0>> \o pack_H(self.addr.i)]

\* Command.binary, "Handle data extension": the outcome of building and
\* packing the data and its bytes
binary_data_nocount(self) ==
    IF In(DEXT, self.header)
    THEN [status |-> IF self.data.k # "list" THEN "TypeError"
                     ELSE IF Len(self.data.s) > USHRT_MAX THEN "struct.error"
                     ELSE "ok",
          out |-> pack_words(self.data.s)]
    ELSE [status |-> IF self.data.k = "int" THEN "ok" ELSE "struct.error",
          out |-> pack_H(self.data.i)]

binary_data(self) ==
    IF In(DEXT, self.header)
    THEN [status |-> IF self.data.k # "list" THEN "TypeError"
                     ELSE IF Len(self.data.s) > USHRT_MAX THEN "struct.error"
                     ELSE "ok",
          out |-> pack_H(Len(self.data.s)) \o pack_words(self.data.s)]
    ELSE [status |-> IF self.data.k = "int" THEN "ok" ELSE "struct.error",
          out |-> pack_H(self.data.i)]

\* Command.binary: the object after the call, the outcome and the bytes.
\* bytes([self.addr]) and len(self.data) raise while the fields are built,
\* struct.pack raises afterwards.
binary(self) ==
    LET s1 == [self EXCEPT !.data = IF self.data.k = "none" THEN PyInt(0)
                                    ELSE self.data]
        header == BitOr(s1.header, parity_odd(s1.header))
        addr == binary_addr(s1)
        data == binary_data(s1)
        h_idx_bytes == <<header, code[s1.idx]>>
        status ==
            IF addr.status \in {"TypeError", "ValueError"} THEN addr.status
            ELSE IF data.status = "TypeError" THEN data.status
            ELSE IF addr.status # "ok" THEN addr.status
            ELSE data.status
    IN  [self |-> s1, status |-> status,
         out |-> IF status = "ok" THEN h_idx_bytes \o addr.out \o data.out
                 ELSE <<>>]

allowed_contains(self) == \E m \in header_modes[self.idx] : In(m, self.header)

\* Command.allowed
allowed(self) == self.header \in header_modes[self.idx]

supports_any(c, modes) ==
    \E n \in 1..Len(modes) : modes[n] \in header_modes[c]

\* CmdIndex.supports(*header_modes), the modes given as the list of the
\* arguments
supports(c, modes) ==
    \A n \in 1..Len(modes) : modes[n] \in header_modes[c]

----------------------------------------------------------------------------
(* The legacy encoders kept as references in test.py *)

\* get_val of expected_binary: uint16 to bytearray([uint8, uint8])
get_val(i) == <<i \div 256, i - (i \div 256) * 256>>

\* parity_odd of expected_binary
legacy_parity_odd(x) ==
    LET x1 == BitXor(x, x \div 16)
        x2 == BitXor(x1, x1 \div 4)
        x3 == BitXor(x2, x2 \div 2)
    IN  BitAnd(x3, 1)

\* data_bytes.extend(get_val(e)) for each element e of a list, in order
extend_vals(l) ==
    [k \in 1..(2 * Len(l)) |->
        IF k % 2 = 1 THEN get_val(l[(k + 1) \div 2])[1]
        ELSE get_val(l[k \div 2])[2]]

\* TestBinaryCommand.expected_binary, applied to a Command after binary()
expected_binary(c) ==
    LET f(flag) == IF In(flag, c.header) THEN 1 ELSE 0
        header_byte == 128 + f(BCAST) * 64 + f(ALLCH) * 32 + f(ADDM) * 16
                       + f(RW) * 8 + f(ACT) * 4 + f(DEXT) * 2
        header_par == header_byte + legacy_parity_odd(header_byte)
        ch == IF c.addr.k = "none" THEN 0 ELSE c.addr.i
        address_bytes == IF f(ADDM) = 1 THEN get_val(c.addr_id) \o <<ch>>
                         ELSE <<0>> \o get_val(ch)
        n_words == IF c.data.k = "list" THEN Len(c.data.s) ELSE 1
        n_dext_words == IF n_words > 65535 THEN 65535 ELSE n_words
        count_bytes == IF f(DEXT) = 1 THEN get_val(n_dext_words) ELSE <<>>
        \* the element loop breaks after the element at index n_dext_words
        n_taken == IF Len(c.data.s) > n_dext_words + 1 THEN n_dext_words + 1
                   ELSE Len(c.data.s)
        value_bytes == IF c.data.k = "int" THEN get_val(c.data.i)
                       ELSE extend_vals(SubSeq(c.data.s, 1, n_taken))
        status ==
            IF c.addr.k = "str" THEN "TypeError"
            ELSE IF f(ADDM) = 1 /\ ch > 255 THEN "ValueError"
            ELSE IF c.data.k \notin {"int", "list"} THEN "AttributeError"
            ELSE "ok"
    IN  [status |-> status,
         out |-> IF status = "ok"
                 THEN <<header_par, code[c.idx]>> \o address_bytes
                      \o count_bytes \o value_bytes
                 ELSE <<>>]

\* TestASCIICommand.expected_ascii (the formatting part), applied to a
\* Command after ascii()
expected_ascii(c) ==
    LET ch == IF c.addr.k = "none" THEN <<>> ELSE str(c.addr)
        value == IF c.data.k = "none" THEN <<>>
                 ELSE IF c.data.k = "list"
                      THEN int_str(Head(c.data.s)) \o join_comma(Tail(c.data.s))
                      ELSE str(c.data)
    IN  idx_str[c.idx] \o ch \o <<type(c)>> \o value \o <<"\n">>

----------------------------------------------------------------------------
(* class Qontroller: the transmitting half of issue_command.  The session  *)
(* writes to the byte stream of its serial port and keeps a bounded log.   *)

Upper == <<"A", "B", "C", "D", "E", "F", "G", "H", "I", "J", "K", "L", "M",
           "N", "O", "P", "Q", "R", "S", "T", "U", "V", "W", "X", "Y", "Z">>
Lower == <<"a", "b", "c", "d", "e", "f", "g", "h", "i", "j", "k", "l", "m",
           "n", "o", "p", "q", "r", "s", "t", "u", "v", "w", "x", "y", "z">>

IndexIn(t, c) == CHOOSE n \in 1..Len(t) : t[n] = c
Occurs(t, c) == \E n \in 1..Len(t) : t[n] = c

\* str.upper, str.lower and str.islower
upper(s) ==
    [n \in 1..Len(s) |->
        IF Occurs(Lower, s[n]) THEN Upper[IndexIn(Lower, s[n])] ELSE s[n]]
lower(s) ==
    [n \in 1..Len(s) |->
        IF Occurs(Upper, s[n]) THEN Lower[IndexIn(Upper, s[n])] ELSE s[n]]
islower(s) ==
    /\ \E n \in 1..Len(s) : Occurs(Lower, s[n])
    /\ \A n \in 1..Len(s) : ~Occurs(Upper, s[n])

\* ord of the characters a command line is made of
ord(c) ==
    CASE Occurs(Upper, c) -> 64 + IndexIn(Upper, c)
      [] Occurs(Lower, c) -> 96 + IndexIn(Lower, c)
      [] Occurs(Digit, c) -> 47 + IndexIn(Digit, c)
      [] c = "\n" -> 10
      [] c = "," -> 44
      [] c = "=" -> 61
      [] c = "?" -> 63

\* str.encode('ascii')
encode_ascii(s) == [n \in 1..Len(s) |-> ord(s[n])]

\* capacity of the log FIFO of a session built with a bounded log
log_max_len == 3

\* an entry of the log; of its time stamps only proctime is kept, as the
\* time that passed since the entry before it, and only for what a read
\* logs: that is the one use made of it (ProgramGenerator._parse_log)
LogEntry(type_, id, ch, value, desc, raw) ==
    [type |-> type_, id |-> id, ch |-> ch, value |-> value, desc |-> desc,
     raw |-> raw, proctime |-> 0]

\* Qontroller.log_handler: None, or the function generic_log_handler
\* returned for fatal_errors 'all' or for a list of error codes
NoHandler == [k |-> "none", all |-> FALSE, fatal |-> {}]
generic_log_handler(all, fatal_errors) ==
    [k |-> "generic", all |-> all, fatal |-> fatal_errors]

\* _generic_log_handler(err_dict) raises RuntimeError
handler_raises(h, err_dict) ==
    /\ err_dict.type = "err"
    /\ h.all \/ err_dict.id.i \in h.fatal

\* the log while a method runs: the deque, the entries the handler was
\* called with, and the exception that left log_append, after which the
\* method appends no more
Logged(entries, calls, raised) ==
    [entries |-> entries, handled |-> calls, raised |-> raised]

log_append_drop_newest(l, e) ==
    IF maxlen.k = "none" \/ Len(l.entries) < maxlen.i
    THEN [l EXCEPT !.entries = Append(l.entries, e)] ELSE l

\* deque.append on the deque built by fifo(maxlen = log_max_len)
fifo_append(d, e) ==
    IF maxlen.k = "none" \/ Len(d) < maxlen.i THEN Append(d, e)
    ELSE Tail(Append(d, e))

\* the handler is called with self.log[-1]: IndexError on a deque that
\* holds nothing (maxlen 0)
handle(l) ==
    IF l.entries = <<>> THEN [l EXCEPT !.raised = "IndexError"]
    ELSE [l EXCEPT !.handled = Append(@, l.entries[Len(l.entries)]),
                   !.raised = IF handler_raises(log_handler,
                                                l.entries[Len(l.entries)])
                              THEN "RuntimeError" ELSE "none"]

\* Qontroller.log_append; log_to_stdout is off
log_append(l, e) ==
    IF l.raised # "none" THEN l
    ELSE IF log_handler.k = "none"
    THEN [l EXCEPT !.entries = fifo_append(l.entries, e)]
    ELSE handle([l EXCEPT !.entries = fifo_append(l.entries, e)])

HexDigit == <<"0", "1", "2", "3", "4", "5", "6", "7", "8", "9", "a", "b",
              "c", "d", "e", "f">>

\* bytes.hex
hex(b) ==
    [n \in 1..(2 * Len(b)) |->
        IF n % 2 = 1 THEN HexDigit[(b[(n + 1) \div 2] \div 16) + 1]
        ELSE HexDigit[(b[n \div 2] % 16) + 1]]

transmit_unlogged(w, l, command_string, binary_mode) ==
    IF binary_mode
    THEN [written |-> Append(w, command_string), log |-> l]
    ELSE [written |-> Append(w, encode_ascii(command_string)), log |-> l]

\* Qontroller.transmit: the bytes written to the port and the log after the
\* 'tx' entry
transmit(w, l, command_string, binary_mode) ==
    IF binary_mode
    THEN [written |-> Append(w, command_string),
          log |-> log_append(l, LogEntry("tx", PyStr(<<>>), PyStr(<<>>),
                                         PyInt(0), PyStr(hex(command_string)),
                                         PyBytes(command_string)))]
    ELSE [written |-> Append(w, encode_ascii(command_string)),
          log |-> log_append(l, LogEntry("tx", PyStr(<<>>), PyStr(<<>>),
                                         PyInt(0), PyStr(command_string),
                                         PyStr(<<>>)))]

\* CmdIndex[name]: the member of that name, KeyError if there is none
Registered(name) == \E c \in CmdIndex : idx_str[c] = name
CmdIndex_getitem(key) == CHOOSE c \in CmdIndex : idx_str[c] = key

\* Qontroller.issue_command up to the transmission: the command line built
\* from the arguments
issue_command_tx_str(command_id, ch_arg, operator, value) ==
    LET ch == IF ~truthy(ch_arg) THEN PyStr(<<>>) ELSE ch_arg
        c0 == post_init(Command(CmdIndex_getitem(upper(command_id)), ch, 0,
                                BIN, value))
        c1 == [c0 EXCEPT !.header =
                  IF ch = PyStr(<<"a", "l", "l">>) THEN BitOr(@, ALLCH)
                  ELSE @]
        c2 == [c1 EXCEPT !.header =
                  IF value.k = "list" THEN BitOr(@, DEXT) ELSE @]
        c3 == [c2 EXCEPT !.header =
                  IF operator = <<"?">> THEN BitOr(@, RW) ELSE @]
        r == ascii(c3)
    IN  [cmd |-> r.self, ch |-> ch,
         tx_str |-> IF islower(command_id) THEN lower(r.out) ELSE r.out]

\* the arguments of a send and the outcome of its encoding and transmission;
\* flags are the header bits passed to issue_binary_command, target_errors
\* is the set of the codes listed (empty for None)
NoFlags == [BCAST |-> 0, ALLCH |-> 0, ADDM |-> 0, RW |-> 0, ACT |-> 0,
            DEXT |-> 0]

\* n_lines_requested is None when the caller leaves it at its default,
\* 2**31, a count of lines no collection reaches
CallOf(entry, command_id, ch, operator, value, flags, addr_id_num, n_lines_requested, target_errors, outcome) ==
    [entry |-> entry, command_id |-> command_id, ch |-> ch,
     operator |-> operator, value |-> value, flags |-> flags,
     addr_id_num |-> addr_id_num, n_lines_requested |-> n_lines_requested,
     target_errors |-> target_errors, outcome |-> outcome]

NoCall ==
    CallOf("none", <<>>, PyNone, <<>>, PyNone, NoFlags, 0, PyNone, {}, "none")

\* "Command: " + tx_str + "."
command_desc(tx_str) ==
    <<"C", "o", "m", "m", "a", "n", "d", ":", " ", "\"">> \o tx_str
        \o <<"\"", ".">>

\* What a send does up to the point where it waits for the response, from
\* the byte stream w, the log l and the Command object c: the outcome ("sent"
\* or the exception raised), the byte stream and the log afterwards, the
\* Command object afterwards, and whether the send goes on to collect the
\* response.  An exception that leaves log_append ends the send after the
\* write.
Transmitted(w, l, c, collects) ==
    [status |-> IF l.raised = "none" THEN "sent" ELSE l.raised,
     written |-> w, log |-> l, cmd |-> c,
     collects |-> collects /\ l.raised = "none"]

Raised_logged(exception, w, l, c) ==
    [status |-> exception, written |-> w,
     log |-> log_append(l, LogEntry("err", PyInt(0), PyInt(0), PyInt(0),
                                    PyStr(<<>>), PyStr(<<>>))),
     cmd |-> c, collects |-> FALSE]

\* an exception raised while the command is encoded: nothing is transmitted
\* or logged, nothing is collected
Raised(exception, w, l, c) ==
    [status |-> exception, written |-> w, log |-> l, cmd |-> c,
     collects |-> FALSE]

\* Qontroller.issue_command
issue_command_tx(a, w, l, c) ==
    LET logged(r, t) ==
            Transmitted(t.written,
                        log_append(t.log,
                            LogEntry(IF type(r.cmd) = SET THEN "set"
                                     ELSE "get",
                                     PyStr(a.command_id), r.ch, a.value,
                                     PyStr(command_desc(r.tx_str)),
                                     PyStr(<<>>))),
                        c,
                        type(r.cmd) = GET
                            \/ (type(r.cmd) = SET /\ wait_for_responses))
        sent(r) == logged(r, transmit(w, l, r.tx_str, FALSE))
    IN  IF ~Registered(upper(a.command_id)) THEN Raised("KeyError", w, l, c)
        ELSE sent(issue_command_tx_str(a.command_id, a.ch, a.operator,
                                       a.value))

\* Qontroller.issue_binary_command
issue_binary_command_tx(a, w, l, c) ==
    LET f == a.flags
        h0 == BIN
        h1 == BitOr(h0, IF f.BCAST # 0 THEN BCAST ELSE BIN)
        h2 == BitOr(h1, IF f.ALLCH # 0 THEN ALLCH ELSE BIN)
        h3 == BitOr(h2, IF f.ADDM # 0 THEN ADDM ELSE BIN)
        h4 == BitOr(h3, IF f.RW # 0 THEN RW ELSE BIN)
        h5 == BitOr(h4, IF f.ACT # 0 THEN ACT ELSE BIN)
        header == BitOr(h5, IF f.DEXT # 0 THEN DEXT ELSE BIN)
        logged(t) ==
            Transmitted(t.written, t.log, c,
                        f.RW = 1
                            \/ ((f.RW = 0 \/ f.ACT # 0)
                                /\ wait_for_responses))
        sent(r) ==
            IF r.status # "ok" THEN Raised(r.status, w, l, c)
            ELSE logged(transmit(w, l, r.out, TRUE))
    IN  IF ~Registered(a.command_id) THEN Raised("KeyError", w, l, c)
        ELSE sent(binary(post_init(Command(CmdIndex_getitem(a.command_id),
                                           a.ch, a.addr_id_num, header,
                                           a.value))))

\* Qontroller.send_ascii(cmd)
send_ascii_tx(w, l, c) ==
    LET id == [k |-> "CmdIndex", i |-> code[c.idx], s |-> idx_str[c.idx]]
        logged(r, t) ==
            Transmitted(t.written,
                        log_append(t.log,
                            LogEntry(IF type(r.self) = SET THEN "set"
                                     ELSE "get",
                                     id, r.self.addr, r.self.data,
                                     PyStr(command_desc(r.out)),
                                     PyStr(<<>>))),
                        r.self,
                        type(r.self) = GET
                            \/ (type(r.self) = SET /\ wait_for_responses))
        sent(r) == logged(r, transmit(w, l, r.out, FALSE))
    IN  sent(ascii(c))

\* Qontroller.send_binary(cmd): RW and ACT are the module's Header members
\* here, not arguments
send_binary_tx(w, l, c) ==
    LET logged(r, t) ==
            Transmitted(t.written, t.log, r.self,
                        RW = 1 \/ ((RW = 0 \/ ACT # 0)
                                   /\ wait_for_responses))
        sent(r) ==
            IF r.status # "ok" THEN Raised(r.status, w, l, r.self)
            ELSE logged(r, transmit(w, l, r.out, TRUE))
    IN  sent(binary(c))

\* the transmitting half of the entry point the call a was made through
entry_tx(a, w, l, c) ==
    CASE a.entry = "issue_command" -> issue_command_tx(a, w, l, c)
      [] a.entry = "issue_binary_command" -> issue_binary_command_tx(a, w, l, c)
      [] a.entry = "send_ascii" -> send_ascii_tx(w, l, c)
      [] a.entry = "send_binary" -> send_binary_tx(w, l, c)

----------------------------------------------------------------------------
(* class Error, ErrorType: the lines of the device that report an error *)

\* ErrorType: the members, by code, and their descriptions
ErrorType == {0, 3, 4, 5, 10, 11, 12, 13, 14, 15, 16, 17, 18, 19, 30, 31, 90}

ErrorType_desc(c) ==
    CASE c = 0 ->
        <<"U", "n", "k", "n", "o", "w", "n", " ", "e", "r", "r", "o", "r", ".">>
      [] c = 3 ->
        <<"P", "o", "w", "e", "r", " ", "e", "r", "r", "o", "r", ".">>
      [] c = 4 ->
        <<"C", "a", "l", "i", "b", "r", "a", "t", "i", "o", "n", " ", "e",
        "r", "r", "o", "r", ".">>
      [] c = 5 ->
        <<"O", "u", "t", "p", "u", "t", " ", "e", "r", "r", "o", "r", ".">>
      [] c = 10 ->
        <<"U", "n", "r", "e", "c", "o", "g", "n", "i", "s", "e", "d", " ",
        "c", "o", "m", "m", "a", "n", "d", ".">>
      [] c = 11 ->
        <<"U", "n", "r", "e", "c", "o", "g", "n", "i", "s", "e", "d", " ",
        "i", "n", "p", "u", "t", " ", "p", "a", "r", "a", "m", "e", "t", "e",
        "r", ".">>
      [] c = 12 ->
        <<"U", "n", "r", "e", "c", "o", "g", "n", "i", "s", "e", "d", " ",
        "c", "h", "a", "n", "n", "e", "l", ",", " ", "{", "c", "h", "}", ".">>
      [] c = 13 ->
        <<"O", "p", "e", "r", "a", "t", "i", "o", "n", " ", "f", "o", "r",
        "b", "i", "d", "d", "e", "n", ".">>
      [] c = 14 ->
        <<"S", "e", "r", "i", "a", "l", " ", "b", "u", "f", "f", "e", "r",
        " ", "o", "v", "e", "r", "f", "l", "o", "w", ".">>
      [] c = 15 ->
        <<"S", "e", "r", "i", "a", "l", " ", "c", "o", "m", "m", "u", "n",
        "i", "c", "a", "t", "i", "o", "n", " ", "e", "r", "r", "o", "r", ".">>
      [] c = 16 ->
        <<"C", "o", "m", "m", "a", "n", "d", " ", "t", "i", "m", "e", "d",
        " ", "o", "u", "t", ".">>
      [] c = 17 ->
        <<"S", "P", "I", " ", "e", "r", "r", "o", "r", ".">>
      [] c = 18 ->
        <<"A", "D", "C", " ", "e", "r", "r", "o", "r", ".">>
      [] c = 19 ->
        <<"I", "2", "C", " ", "e", "r", "r", "o", "r", ".">>
      [] c = 30 ->
        <<"T", "o", "o", " ", "m", "a", "n", "y", " ", "e", "r", "r", "o",
        "r", "s", ",", " ", "s", "o", "m", "e", " ", "h", "a", "v", "e", " ",
        "b", "e", "e", "n", " ", "s", "u", "p", "p", "r", "e", "s", "s", "e",
        "d", ".">>
      [] c = 31 ->
        <<"F", "i", "r", "m", "w", "a", "r", "e", " ", "t", "r", "a", "p", ".">>
      [] c = 90 ->
        <<"P", "o", "w", "e", "r", "e", "d", " ", "u", "p", ".">>

\* ErrorType.from_code: the member with that code, UNKNOWN if there is none
from_code(errno) == IF errno \in ErrorType THEN errno ELSE 0

Whitespace == {" ", "\t", "\n", "\r"}

RECURSIVE lstrip(_)
lstrip(s) ==
    IF s # <<>> /\ Head(s) \in Whitespace THEN lstrip(Tail(s)) ELSE s

RECURSIVE rstrip(_)
rstrip(s) ==
    IF s # <<>> /\ s[Len(s)] \in Whitespace
    THEN rstrip(SubSeq(s, 1, Len(s) - 1)) ELSE s

\* str.strip
strip(s) == rstrip(lstrip(s))

IsLetter(c) == Occurs(Upper, c) \/ Occurs(Lower, c)
IsDigit(c) == Occurs(Digit, c)

RECURSIVE letters(_, _)
\* how many letters s has from position p on
letters(s, p) ==
    IF p <= Len(s) /\ IsLetter(s[p]) THEN 1 + letters(s, p + 1) ELSE 0

RECURSIVE digits(_, _)
\* how many digits s has from position p on
digits(s, p) ==
    IF p <= Len(s) /\ IsDigit(s[p]) THEN 1 + digits(s, p + 1) ELSE 0

RECURSIVE int(_)
\* int(s) of a string of decimal digits
int(s) ==
    IF s = <<>> THEN 0
    ELSE 10 * int(SubSeq(s, 1, Len(s) - 1)) + (IndexIn(Digit, s[Len(s)]) - 1)

\* re.match(Error.ERROR_FORMAT, s) with ERROR_FORMAT
\* [A-Za-z]{1,3}(\d+):(\d+): whether s starts with a match, and the groups
ERROR_FORMAT(s) ==
    LET a == letters(s, 1)
        d1 == digits(s, a + 1)
        colon == a + d1 + 1
        d2 == digits(s, colon + 1)
        ok == /\ a \in 1..3
              /\ d1 >= 1
              /\ colon <= Len(s) /\ s[colon] = ":"
              /\ d2 >= 1
    IN  [ok |-> ok,
         group1 |-> IF ok THEN SubSeq(s, a + 1, a + d1) ELSE <<>>,
         group2 |-> IF ok THEN SubSeq(s, colon + 1, colon + d2) ELSE <<>>]

\* Error.from_str followed by Error.to_dict, as Qontroller.parse_error
\* calls them: None, or the dictionary of the error
parse_error(error_str) ==
    LET s == strip(error_str)
        e_match == ERROR_FORMAT(s)
        errno == int(e_match.group1)
        ch == int(e_match.group2)
    IN  IF ~e_match.ok THEN [k |-> "none", id |-> 0, ch |-> 0, desc |-> <<>>,
                             raw |-> <<>>]
        ELSE [k |-> "err", id |-> from_code(errno), ch |-> ch,
              desc |-> ErrorType_desc(from_code(errno)), raw |-> s]

----------------------------------------------------------------------------
(* Qontroller.receive and the loop of _issue_command_receive_response *)

RESPONSE_OK == <<"O", "K", "\n">>

\* the timeouts of the session, in units of inter_response_timeout
response_timeout == 2
inter_response_timeout == 1

RECURSIVE keep_lines(_)
\* the lines of a batch read from the port that are no errors
keep_lines(batch) ==
    IF batch = <<>> THEN <<>>
    ELSE (IF parse_error(Head(batch)).k = "none" THEN <<Head(batch)>>
          ELSE <<>>) \o keep_lines(Tail(batch))

RECURSIVE keep_errs(_)
\* the errors of a batch read from the port
keep_errs(batch) ==
    IF batch = <<>> THEN <<>>
    ELSE (IF parse_error(Head(batch)).k = "none" THEN <<>>
          ELSE <<parse_error(Head(batch))>>) \o keep_errs(Tail(batch))

\* the entry of an error that was read
err_entry(e) ==
    LogEntry("err", PyInt(e.id), PyInt(e.ch), PyInt(0), PyStr(e.desc),
             PyStr(e.raw))

RECURSIVE log_errs(_, _)
\* receive: "Add any errors we found to our log"
log_errs(l, es) ==
    IF es = <<>> THEN l
    ELSE log_errs(log_append(l, err_entry(Head(es))), Tail(es))

\* Qontroller.receive: readline while in_waiting > 0; the lines and errors
\* read, what is left in the port, and the log afterwards, the first entry
\* of the read at the time since the last one; the log handler may raise
\* on an entry, and the entries after it are not appended.  On a virtual
\* port readline is _get_next_out: when in_waiting counts more than the queue holds,
\* popleft raises IndexError once the queue is empty, and what was read is
\* lost
receive ==
    LET read(ls, es, rest) ==
            [raised |-> FALSE, lines |-> ls, errs |-> es, out |-> rest,
             in_waiting |-> 0,
             log |-> IF Len(ls) # 0
                     THEN log_errs(
                              log_append(Logged(log, handled, "none"),
                                  [LogEntry("rcv", PyStr(<<>>), PyStr(<<>>),
                                            PyInt(0), PyList(ls),
                                            PyStr(<<>>))
                                   EXCEPT !.proctime = silent]),
                              es)
                     ELSE IF Len(es) # 0
                     THEN log_errs(
                              log_append(Logged(log, handled, "none"),
                                  [err_entry(Head(es))
                                   EXCEPT !.proctime = silent]),
                              Tail(es))
                     ELSE Logged(log, handled, "none")]
        split(batch, rest) == read(keep_lines(batch), keep_errs(batch), rest)
    IN  IF in_waiting > Len(out)
        THEN [raised |-> TRUE, lines |-> <<>>, errs |-> <<>>, out |-> <<>>,
              in_waiting |-> in_waiting - Len(out),
              log |-> Logged(log, handled, "none")]
        ELSE split(SubSeq(out, 1, in_waiting),
                   SubSeq(out, in_waiting + 1, Len(out)))

\* re.match(output_regex, line).groups() with output_regex (.*): the text
\* of the line up to its first line break
RECURSIVE to_newline(_)
to_newline(line) ==
    IF line = <<>> \/ Head(line) = "\n" THEN <<>>
    ELSE <<Head(line)>> \o to_newline(Tail(line))

values_of_untrimmed(ls) == [n \in 1..Len(ls) |-> <<ls[n]>>]

\* _issue_command_receive_response, "Parse the output"
values_of(ls) == [n \in 1..Len(ls) |-> <<to_newline(ls[n])>>]

\* how a send ended: status "none" while no send has ended, "returned" with
\* the values (None for a send that collects nothing), or the exception
Result(status, values) == [status |-> status, values |-> values]

NoResult == Result("none", <<>>)

\* a RuntimeError raised by the collection: issue_binary_command catches it
\* and, unless the command is a read (RW == 1), only prints a warning and
\* returns None
raise_RuntimeError(a, failure) ==
    IF a.entry = "issue_binary_command" /\ a.flags.RW # 1
    THEN Result("warned", <<>>)
    ELSE Result(failure, <<>>)

\* most retransmissions the model follows within one send
MaxRetries == 2
\* most lines the device sends to one session
MaxLines == 2

\* A send through one of the entry points, with the arguments a and, for
\* send_ascii and send_binary, the Command object c: encode, transmit and
\* log, then enter the collection loop or return None
start(a, c) ==
    LET started(t) ==
            /\ call' = [a EXCEPT !.outcome = t.status]
            /\ written' = t.written
            /\ log' = t.log.entries
            /\ handled' = t.log.handled
            /\ cmd' = t.cmd
            /\ tx0' = IF Len(t.written) > Len(written)
                      THEN t.written[Len(t.written)] ELSE <<>>
            /\ retries' = 0
            /\ lines' = <<>>
            /\ errs' = <<>>
            /\ elapsed' = 0
            /\ silent' = 0
            /\ IF t.collects
               THEN pc' = "receive" /\ result' = NoResult
               ELSE /\ pc' = "idle"
                    /\ result' = IF t.status = "sent"
                                 THEN Result("returned None", <<>>)
                                 ELSE Result(t.status, <<>>)
    IN  /\ pc = "idle"
        /\ started(entry_tx(a, written, Logged(log, handled, "none"), c))
        /\ UNCHANGED <<ret, config_vars, log_handler, port_vars, vm_vars>>

\* Qontroller.issue_command
issue_command(command_id, ch, operator, value, n_lines_requested, target_errors) ==
    /\ start(CallOf("issue_command", command_id, ch, operator, value,
                    NoFlags, 0, n_lines_requested, target_errors, "none"),
             cmd)
    /\ UNCHANGED <<header_arg, cmd0>>

\* Qontroller.issue_binary_command
issue_binary_command(command_id, ch, flags, value_int, addr_id_num, n_lines_requested, target_errors) ==
    /\ start(CallOf("issue_binary_command", command_id, ch, <<>>, value_int,
                    flags, addr_id_num, n_lines_requested, target_errors,
                    "none"),
             cmd)
    /\ UNCHANGED <<header_arg, cmd0>>

\* Qontroller.send_ascii(cmd) and Qontroller.send_binary(cmd), for the
\* Command constructed from the arguments A
send_ascii(A) ==
    LET c == post_init(Command(A.idx, A.addr, A.addr_id, A.header, A.data))
    IN  /\ start(CallOf("send_ascii", <<>>, PyNone, <<>>, PyNone, NoFlags, 0,
                        PyNone, {}, "none"), c)
        /\ header_arg' = A.header
        /\ cmd0' = c

send_binary(A) ==
    LET c == post_init(Command(A.idx, A.addr, A.addr_id, A.header, A.data))
    IN  /\ start(CallOf("send_binary", <<>>, PyNone, <<>>, PyNone, NoFlags,
                        0, PyNone, {}, "none"), c)
        /\ header_arg' = A.header
        /\ cmd0' = c

break_condition_overall_only ==
    \/ \E n \in 1..Len(lines) : lines[n] = RESPONSE_OK
    \/ /\ call.n_lines_requested.k = "int"
       /\ Len(lines) >= call.n_lines_requested.i
    \/ \E n \in 1..Len(errs) : errs[n].id \in call.target_errors
    \/ elapsed > response_timeout

break_condition_no_sentinel ==
    \/ \E n \in 1..Len(errs) : errs[n].id \in call.target_errors
    \/ elapsed > response_timeout /\ silent > inter_response_timeout

\* _issue_command_receive_response, "Break conditions"
break_condition ==
    \/ \E n \in 1..Len(lines) : lines[n] = RESPONSE_OK
    \/ /\ call.n_lines_requested.k = "int"
       /\ Len(lines) >= call.n_lines_requested.i
    \/ \E n \in 1..Len(errs) : errs[n].id \in call.target_errors
    \/ elapsed > response_timeout /\ silent > inter_response_timeout

\* the loop ends: "We timed out", "Parse the output"
collect_break ==
    /\ pc = "receive"
    /\ break_condition
    /\ result' = IF Len(lines) = 0 /\ Len(errs) = 0
                 THEN raise_RuntimeError(call, "TimeoutError")
                 ELSE Result("returned", values_of(lines))
    /\ pc' = "idle"
    /\ UNCHANGED <<codec_vars, config_vars, handler_vars, written, log, call,
                   port_vars, loop_vars, retries, tx0, vm_vars>>

\* one pass of the loop that reads the port: receive, integrate, then retry
\* on a communication error (E15), or raise on a target error, or go round
collect_receive ==
    LET \* return retry_function(): the entry point again
        retry(t) ==
            /\ retries < MaxRetries
            /\ written' = t.written
            /\ log' = t.log.entries
            /\ handled' = t.log.handled
            /\ cmd' = t.cmd
            /\ retries' = retries + 1
            /\ lines' = <<>>
            /\ errs' = <<>>
            /\ elapsed' = 0
            /\ silent' = 0
            /\ IF t.collects
               THEN UNCHANGED <<result, pc>>
               ELSE /\ result' = IF t.status = "sent"
                                 THEN Result("returned None", <<>>)
                                 ELSE Result(t.status, <<>>)
                    /\ pc' = "idle"
        \* the exception e ends the send
        raise(r, ls, es, e) ==
            /\ result' = e
            /\ pc' = "idle"
            /\ log' = r.log.entries
            /\ handled' = r.log.handled
            /\ lines' = ls
            /\ errs' = es
            /\ UNCHANGED <<written, cmd, retries, elapsed, silent>>
        integrate(r, ls, es) ==
            /\ out' = r.out
            /\ in_waiting' = r.in_waiting
            /\ UNCHANGED emitted
            /\ IF r.raised
               THEN raise(r, lines, errs, Result("IndexError", <<>>))
               ELSE IF r.log.raised = "RuntimeError"
               THEN \* the log handler raised in receive
                    raise(r, lines, errs,
                          raise_RuntimeError(call, "HandlerError"))
               ELSE IF r.log.raised # "none"
               THEN raise(r, lines, errs, Result(r.log.raised, <<>>))
               ELSE IF \E n \in 1..Len(es) : es[n].id = 15
               THEN IF call.entry = "send_binary"
                    THEN \* retry_function names variables send_binary has
                         \* not
                         raise(r, ls, es, Result("NameError", <<>>))
                    ELSE retry(entry_tx(call, written, r.log, cmd))
               ELSE IF \E n \in 1..Len(es) : es[n].id \in call.target_errors
               THEN \* the message quotes self.log[-6] .. self.log[-2]
                    raise(r, ls, es,
                          IF Len(r.log.entries) < 6
                          THEN Result("IndexError", <<>>)
                          ELSE raise_RuntimeError(call, "TargetError"))
               ELSE /\ log' = r.log.entries
                    /\ handled' = r.log.handled
                    /\ lines' = ls
                    /\ errs' = es
                    /\ silent' = IF Len(r.lines) + Len(r.errs) > 0 THEN 0
                                 ELSE silent
                    /\ UNCHANGED <<written, cmd, retries, elapsed, result,
                                   pc>>
        received(r) == integrate(r, lines \o r.lines, errs \o r.errs)
    IN  /\ pc = "receive"
        /\ ~break_condition
        /\ received(receive)
        /\ UNCHANGED <<header_arg, cmd0, ret, config_vars, log_handler, call,
                       tx0, vm_vars>>

\* time passes while the session waits
Tick ==
    /\ pc = "receive"
    /\ elapsed <= response_timeout \/ silent <= inter_response_timeout
    /\ elapsed' = IF elapsed <= response_timeout THEN elapsed + 1
                  ELSE elapsed
    /\ silent' = IF silent <= inter_response_timeout THEN silent + 1
                 ELSE silent
    /\ UNCHANGED <<codec_vars, config_vars, handler_vars, written, log, call,
                   pc, port_vars, lines, errs, result, retries, tx0, vm_vars>>

\* the device on a serial port sends a line while the session reads
device_send(line) ==
    /\ pc \in {"receive", "wait"}
    /\ emitted < MaxLines
    /\ out' = Append(out, line)
    /\ in_waiting' = in_waiting + 1
    /\ emitted' = emitted + 1
    /\ UNCHANGED <<codec_vars, config_vars, handler_vars, written, log, call,
                   pc, loop_vars, result, retries, tx0, vm_vars>>

\* Qontroller.wait: receive is called again and again until the time is
\* over; whatever the device sends meanwhile is read and logged, and an
\* exception of the log handler ends the wait
wait_start ==
    /\ pc = "idle"
    /\ pc' = "wait"
    /\ UNCHANGED <<codec_vars, config_vars, handler_vars, written, log,
                   call, port_vars, loop_vars, result, retries, tx0,
                   vm_vars>>

wait_receive ==
    /\ pc = "wait"
    /\ in_waiting > 0
    /\ out' = receive.out
    /\ in_waiting' = receive.in_waiting
    /\ log' = receive.log.entries
    /\ handled' = receive.log.handled
    /\ pc' = IF receive.log.raised = "none" THEN pc ELSE "idle"
    /\ UNCHANGED <<codec_vars, config_vars, log_handler, written, call,
                   emitted, loop_vars, result, retries, tx0, vm_vars>>

wait_end ==
    /\ pc = "wait"
    /\ pc' = "idle"
    /\ UNCHANGED <<codec_vars, config_vars, handler_vars, written, log,
                   call, port_vars, loop_vars, result, retries, tx0,
                   vm_vars>>

----------------------------------------------------------------------------
(* virtual_module.py: the simulator behind a virtual port.  Every write to *)
(* the port starts a thread that runs handle_write_event; the threads and  *)
(* the session run concurrently, one statement at a time.                  *)

Alphabet ==
    {Upper[n] : n \in 1..Len(Upper)} \cup {Lower[n] : n \in 1..Len(Lower)}
        \cup {Digit[n] : n \in 1..Len(Digit)} \cup {"\n", ",", "=", "?"}

\* bytes.decode('ascii') of the bytes of a command line
decode_ascii(b) == [n \in 1..Len(b) |-> CHOOSE c \in Alphabet : ord(c) = b[n]]

command_text_above_81(b) ==
    IF b[1] > BIN + 1 THEN hex(b)
    ELSE IF \E n \in 1..Len(b) : b[n] >= BIN
    THEN <<"UnicodeDecodeError">> ELSE decode_ascii(b)

\* handle_write_event, "If command is binary": the command text of a write
command_text(b) == IF b[1] > BIN THEN hex(b) ELSE decode_ascii(b)

\* the members of Action
Action == {"QUEUE_OUT", "QUEUE_OUT_MANY", "RUN_CUSTOM", "NOP"}

\* A Program: data is the list of its commands, each with its response
\* entries; an entry is [action, data, delay], data being the list of the
\* messages it queues (one message for QUEUE_OUT); divide tells whether it
\* has the key 'divide', with its frames and delays; func is the handler of
\* RUN_CUSTOM
NoFunc == [name |-> "", registered |-> FALSE]

Entry(action, data, delay) ==
    [action |-> action, data |-> data, delay |-> delay, divide |-> FALSE,
     frames |-> <<>>, delays |-> <<>>, func |-> NoFunc]

\* a QUEUE_OUT_MANY entry with 'divide'
EntryDivide(data, frames, delays) ==
    [Entry("QUEUE_OUT_MANY", data, 0) EXCEPT !.divide = TRUE,
                                             !.frames = frames,
                                             !.delays = delays]

\* a RUN_CUSTOM entry
EntryCustom(func) == [Entry("RUN_CUSTOM", <<>>, 0) EXCEPT !.func = func]

CmdEntry(c, entries) == [cmd |-> c, entries |-> entries]

\* a CustomHandler with the handlers of the given names registered, and
\* custom=None
CustomHandler(names) == [none |-> FALSE, registered |-> names]
NoCustom == [none |-> TRUE, registered |-> {}]

\* getattr(custom, name, None): a registered handler (register does
\* "setattr(self, func.__name__, func)"), or another attribute of the
\* object: every object has __class__, a CustomHandler has its method
\* register; nothing found is None
getattr_custom(custom, name) ==
    IF name \in custom.registered
    THEN [found |-> TRUE, func |-> [name |-> name, registered |-> TRUE]]
    ELSE IF name \in {"__class__"}
                     \cup (IF custom.none THEN {} ELSE {"register"})
    THEN [found |-> TRUE, func |-> [name |-> name, registered |-> FALSE]]
    ELSE [found |-> FALSE, func |-> NoFunc]

\* Program._parse_entry: "Action[entry['action']]" is KeyError for a name
\* that is no member of Action; a RUN_CUSTOM entry gets the attribute of
\* custom that its 'func' names, and error(), which exits, when there is
\* none
parse_entry(entry, custom) ==
    IF entry.action \notin Action
    THEN [status |-> "KeyError", entry |-> entry]
    ELSE IF entry.action # "RUN_CUSTOM"
    THEN [status |-> "ok", entry |-> entry]
    ELSE IF getattr_custom(custom, entry.func.name).found
    THEN [status |-> "ok",
          entry |-> [entry EXCEPT
                        !.func = getattr_custom(custom, @.name).func]]
    ELSE [status |-> "SystemExit", entry |-> entry]

RECURSIVE parse_entries(_, _)
\* Program._parse_data, "for entry in cmd_entry['entries']": up to the
\* first entry that fails
parse_entries(entries, custom) ==
    IF entries = <<>> THEN [status |-> "ok", entries |-> <<>>]
    ELSE IF parse_entry(Head(entries), custom).status # "ok"
    THEN [status |-> parse_entry(Head(entries), custom).status,
          entries |-> <<>>]
    ELSE [status |-> parse_entries(Tail(entries), custom).status,
          entries |-> <<parse_entry(Head(entries), custom).entry>>
                        \o parse_entries(Tail(entries), custom).entries]

RECURSIVE parse_data(_, _)
\* Program._parse_data, "for i, cmd_entry in enumerate(data)"
parse_data(data, custom) ==
    IF data = <<>> THEN [status |-> "ok", data |-> <<>>]
    ELSE IF parse_entries(Head(data).entries, custom).status # "ok"
    THEN [status |-> parse_entries(Head(data).entries, custom).status,
          data |-> <<>>]
    ELSE [status |-> parse_data(Tail(data), custom).status,
          data |-> <<CmdEntry(Head(data).cmd,
                              parse_entries(Head(data).entries,
                                            custom).entries)>>
                     \o parse_data(Tail(data), custom).data]

\* Program.from_dict: the Program of the dict; SystemExit passes the
\* "except Exception", any other failure is logged there and then
\* "return cls(name, data, ...)" raises UnboundLocalError
from_dict(prog, custom) ==
    IF parse_data(prog.data, custom).status = "ok"
    THEN [status |-> "ok",
          program |-> [data |-> parse_data(prog.data, custom).data,
                       initial_out |-> prog.initial_out]]
    ELSE [status |-> IF parse_data(prog.data, custom).status = "SystemExit"
                     THEN "SystemExit" ELSE "UnboundLocalError",
          program |-> [data |-> <<>>, initial_out |-> <<>>]]

\* Program._parse_data: cmd2idx, the place of a command text in data (the
\* last place when the text is listed more than once)
in_cmd2idx(p, c) == \E n \in 1..Len(p.data) : p.data[n].cmd = c
cmd2idx(p, c) ==
    CHOOSE n \in 1..Len(p.data) :
        /\ p.data[n].cmd = c
        /\ \A m \in (n + 1)..Len(p.data) : p.data[m].cmd # c

\* Program.__getitem__: the entry of the command, of '*' for a command the
\* program does not list; KeyError when it has no '*' either
Program_getitem(p, c) ==
    LET key == IF in_cmd2idx(p, c) THEN c ELSE <<"*">>
    IN  IF in_cmd2idx(p, key)
        THEN [ok |-> TRUE, cmd_data |-> p.data[cmd2idx(p, key)]]
        ELSE [ok |-> FALSE, cmd_data |-> CmdEntry(<<>>, <<>>)]

\* xs[:n] and xs[n:]
take(xs, n) == SubSeq(xs, 1, IF n < Len(xs) THEN n ELSE Len(xs))
drop(xs, n) == SubSeq(xs, (IF n < Len(xs) THEN n ELSE Len(xs)) + 1, Len(xs))

RECURSIVE partition(_, _)
\* partition: xs cut into chunks of the sizes in frames
partition(xs, frames) ==
    IF frames = <<>> THEN <<>>
    ELSE <<take(xs, Head(frames))>>
             \o partition(drop(xs, Head(frames)), Tail(frames))

\* zip(delays, parts): as many pairs as the shorter list has
zip(delays, parts) ==
    [n \in 1..(IF Len(delays) < Len(parts) THEN Len(delays)
               ELSE Len(parts)) |-> [d |-> delays[n], items |-> parts[n]]]

frames_of_one_sleep(response) ==
    <<[d |-> IF response.action = "QUEUE_OUT_MANY" /\ response.divide
             THEN response.delays[1] ELSE response.delay,
       items |-> response.data]>>

\* handle_write_event, QUEUE_OUT and QUEUE_OUT_MANY: the sleeps of the
\* response, each with the messages queued after it
frames_of(response) ==
    IF response.action = "QUEUE_OUT_MANY" /\ response.divide
    THEN zip(response.delays, partition(response.data, response.frames))
    ELSE <<[d |-> response.delay, items |-> response.data]>>

\* a thread running handle_write_event for the w-th write: where it is, the
\* command text, the entries found, the value it loaded (of the count in
\* _inc_cmd_cnt, of in_waiting in _queue_out), the index it chose, the
\* messages it has still to queue after the sleep it is in, the delay left
\* of that sleep, the sleeps that follow and the time it has slept
Task(w, at, c, entries, tmp, index, todo, delay) ==
    [w |-> w, pc |-> at, cmd |-> c, entries |-> entries, tmp |-> tmp,
     index |-> index, todo |-> todo, delay |-> delay, frames |-> <<>>,
     slept |-> 0]

step(t, u) == tasks' = (tasks \ {t}) \cup {u}

\* the thread of the w-th write starts: the command text and
\* "cmd_data = self.program[cmd]"
vm_start(w) ==
    /\ w \in 1..Len(written)
    /\ \A t \in tasks : t.w # w
    /\ LET c == command_text(written[w])
           r == Program_getitem(program, c)
       IN  tasks' = tasks \cup
               {Task(w, IF r.ok THEN "check" ELSE "KeyError", c,
                     r.cmd_data.entries, 0, 0, <<>>, 0)}
    /\ UNCHANGED <<codec_vars, config_vars, handler_vars, written, log, call,
                   pc, port_vars, loop_vars, result, retries, tx0, program,
                   cmd_cnt>>

\* _inc_cmd_cnt: "if not cmd in self.cmd_cnt"
vm_check(t) ==
    /\ t.pc = "check"
    /\ step(t, [t EXCEPT !.pc = IF t.cmd \in DOMAIN cmd_cnt THEN "load"
                                ELSE "new"])
    /\ UNCHANGED <<codec_vars, config_vars, handler_vars, written, log, call,
                   pc, port_vars, loop_vars, result, retries, tx0, program,
                   cmd_cnt>>

\* _inc_cmd_cnt: "self.cmd_cnt[cmd] = 0"
vm_new(t) ==
    /\ t.pc = "new"
    /\ cmd_cnt' = [k \in DOMAIN cmd_cnt \cup {t.cmd} |->
                      IF k = t.cmd THEN 0 ELSE cmd_cnt[k]]
    /\ step(t, [t EXCEPT !.pc = "load"])
    /\ UNCHANGED <<codec_vars, config_vars, handler_vars, written, log, call,
                   pc, port_vars, loop_vars, result, retries, tx0, program>>

\* _inc_cmd_cnt: "self.cmd_cnt[cmd] += 1" reads the count ...
vm_load(t) ==
    /\ t.pc = "load"
    /\ step(t, [t EXCEPT !.pc = "store", !.tmp = cmd_cnt[t.cmd]])
    /\ UNCHANGED <<codec_vars, config_vars, handler_vars, written, log, call,
                   pc, port_vars, loop_vars, result, retries, tx0, program,
                   cmd_cnt>>

\* ... and writes it back; then "self.cmd_cnt['all'] += 1"
vm_store(t) ==
    /\ t.pc = "store"
    /\ cmd_cnt' = [k \in DOMAIN cmd_cnt |->
                      IF k = t.cmd THEN t.tmp + 1
                      ELSE IF k = <<"a", "l", "l">> THEN cmd_cnt[k] + 1
                      ELSE cmd_cnt[k]]
    /\ step(t, [t EXCEPT !.pc = "index"])
    /\ UNCHANGED <<codec_vars, config_vars, handler_vars, written, log, call,
                   pc, port_vars, loop_vars, result, retries, tx0, program>>

\* _read_cmd_cnt
read_cmd_cnt(c) == IF c \in DOMAIN cmd_cnt THEN cmd_cnt[c] ELSE 0

\* "for d, p in zip(delays, parts)": the next sleep, or the end of the
\* thread
next_frame(t) ==
    IF t.frames = <<>> THEN [t EXCEPT !.pc = "done"]
    ELSE [t EXCEPT !.pc = "sleep", !.delay = Head(t.frames).d,
                   !.todo = Head(t.frames).items, !.frames = Tail(t.frames)]

\* the message a registered handler queues: handle_unknown_command of
\* devtest.py, "vm._queue_out(f'Unknown command: {cmd}')"
Unknown_command(c) ==
    <<"U", "n", "k", "n", "o", "w", "n", " ", "c", "o", "m", "m", "a", "n",
      "d", ":", " ">> \o c

\* handle_write_event: "index = (self._read_cmd_cnt(cmd) - 1) %
\* len(responses)" and the response chosen; nothing to do without responses
\* and for NOP; RUN_CUSTOM calls response['func'], TypeError when that is
\* not a function of three arguments
vm_index(t) ==
    /\ t.pc = "index"
    /\ LET responses == t.entries
           index == (read_cmd_cnt(t.cmd) - 1) % Len(responses)
           response == responses[index + 1]
       IN  step(t, IF Len(responses) = 0 THEN [t EXCEPT !.pc = "done"]
                   ELSE IF response.action = "NOP"
                   THEN [t EXCEPT !.pc = "done", !.index = index]
                   ELSE IF response.action = "RUN_CUSTOM"
                   THEN IF response.func.registered
                        THEN [t EXCEPT !.pc = "sleep", !.index = index,
                                       !.todo = <<Unknown_command(t.cmd)>>]
                        ELSE [t EXCEPT !.pc = "TypeError", !.index = index]
                   ELSE next_frame([t EXCEPT !.index = index,
                                             !.frames = frames_of(response)]))
    /\ UNCHANGED <<codec_vars, config_vars, handler_vars, written, log, call,
                   pc, port_vars, loop_vars, result, retries, tx0, program,
                   cmd_cnt>>

\* once sleep(d) is over, _queue_out for the next message: "self.out.append
\* (msg)"; without a message left, the next sleep
vm_queue_out(t) ==
    /\ t.pc = "sleep"
    /\ t.delay = 0
    /\ IF t.todo = <<>>
       THEN /\ step(t, next_frame(t))
            /\ UNCHANGED port_vars
       ELSE /\ out' = Append(out, Head(t.todo))
            /\ emitted' = emitted + 1
            /\ step(t, [t EXCEPT !.todo = Tail(t.todo), !.pc = "inc_load"])
            /\ UNCHANGED in_waiting
    /\ UNCHANGED <<codec_vars, config_vars, handler_vars, written, log, call,
                   pc, loop_vars, result, retries, tx0, program, cmd_cnt>>

\* _queue_out: "self.port.in_waiting += 1" reads the count ...
vm_inc_load(t) ==
    /\ t.pc = "inc_load"
    /\ step(t, [t EXCEPT !.pc = "inc_store", !.tmp = in_waiting])
    /\ UNCHANGED <<codec_vars, config_vars, handler_vars, written, log, call,
                   pc, port_vars, loop_vars, result, retries, tx0, program,
                   cmd_cnt>>

\* ... and writes it back
vm_inc_store(t) ==
    /\ t.pc = "inc_store"
    /\ in_waiting' = t.tmp + 1
    /\ step(t, IF t.todo = <<>> THEN next_frame(t)
               ELSE [t EXCEPT !.pc = "sleep"])
    /\ UNCHANGED <<codec_vars, config_vars, handler_vars, written, log, call,
                   pc, out, emitted, loop_vars, result, retries, tx0, program,
                   cmd_cnt>>

\* a thread that has something to do now
runnable(t) ==
    t.pc \in {"check", "new", "load", "store", "index", "inc_load",
            "inc_store"}
        \/ (t.pc = "sleep" /\ t.delay = 0)

\* time passes: for the session while it waits, and for the threads that
\* sleep; a thread that has something to do is not kept waiting, a write
\* has its thread started, and the session, which polls the port without
\* pause, has read what the port holds, before time goes on
TickVM ==
    /\ \A t \in tasks : ~runnable(t)
    /\ \A w \in 1..Len(written) : \E t \in tasks : t.w = w
    /\ ~(pc = "receive" /\ in_waiting > 0)
    /\ \/ /\ pc = "receive"
          /\ elapsed <= response_timeout
                \/ silent <= inter_response_timeout
       \/ \E t \in tasks : t.pc = "sleep"
    /\ elapsed' = IF pc = "receive" /\ elapsed <= response_timeout
                  THEN elapsed + 1 ELSE elapsed
    /\ silent' = IF pc = "receive" /\ silent <= inter_response_timeout
                 THEN silent + 1 ELSE silent
    /\ tasks' = {IF t.pc = "sleep"
                 THEN [t EXCEPT !.delay = @ - 1, !.slept = @ + 1] ELSE t :
                    t \in tasks}
    /\ UNCHANGED <<codec_vars, config_vars, handler_vars, written, log, call,
                   pc, port_vars, lines, errs, result, retries, tx0, program,
                   cmd_cnt>>

\* a write to the virtual port that no session makes: VirtualPort.write
port_write(command_string) ==
    /\ written' = Append(written, encode_ascii(command_string))
    /\ UNCHANGED <<codec_vars, config_vars, handler_vars, log, call, pc,
                   port_vars, loop_vars, result, retries, tx0, vm_vars>>

Response_no_delay(delay, data) == [delay |-> 0, data |-> data]

\* ProgramGenerator: the Program that answers as a session's log tells.
\* Response and LogEntry of the generator
Response(delay, data) == [delay |-> delay, data |-> data]
GenEntry(c, responses) == [cmd |-> c, responses |-> responses]

RECURSIVE parse_log(_, _)
\* ProgramGenerator._parse_log: a new entry for every 'tx', the 'rcv' and
\* 'err' items added to the last entry as responses (pop() of an empty
\* deque is IndexError), the other items passed over; the delay of a
\* response is the time since the item before it
parse_log(l, parsed_log) ==
    IF l = <<>> THEN [status |-> "ok", parsed_log |-> parsed_log]
    ELSE IF Head(l).type = "tx"
    THEN parse_log(Tail(l),
                   Append(parsed_log, GenEntry(Head(l).desc.s, <<>>)))
    ELSE IF Head(l).type \notin {"rcv", "err"}
    THEN parse_log(Tail(l), parsed_log)
    ELSE IF parsed_log = <<>>
    THEN [status |-> "IndexError", parsed_log |-> <<>>]
    ELSE parse_log(Tail(l),
                   [parsed_log EXCEPT ![Len(parsed_log)].responses =
                       Append(@, Response(Head(l).proctime,
                                          IF Head(l).type = "rcv"
                                          THEN Head(l).desc.s
                                          ELSE <<Head(l).raw.s>>))])

RECURSIVE extend(_)
\* _gen_entry, "data.extend(res.data)" over the responses
extend(responses) ==
    IF responses = <<>> THEN <<>>
    ELSE Head(responses).data \o extend(Tail(responses))

\* _gen_entry, the entry of one command of the log: QUEUE_OUT for one
\* message, else QUEUE_OUT_MANY; one delay for one response, else 'divide'
\* with the sizes and the delays of the responses
gen_response(log_entry) ==
    LET made(data, n) ==
            [Entry(IF Len(data) = 1 THEN "QUEUE_OUT" ELSE "QUEUE_OUT_MANY",
                   data, IF n = 1 THEN log_entry.responses[1].delay ELSE 0)
             EXCEPT !.divide = n # 1,
                    !.frames = IF n = 1 THEN <<>>
                               ELSE [k \in 1..n |->
                                        Len(log_entry.responses[k].data)],
                    !.delays = IF n = 1 THEN <<>>
                               ELSE [k \in 1..n |->
                                        log_entry.responses[k].delay]]
    IN  made(extend(log_entry.responses), Len(log_entry.responses))

\* _gen_entry: the entry is added to those of its command (find_cmd_data),
\* a command not seen before is added to the data first
gen_entry(data, log_entry) ==
    IF \E n \in 1..Len(data) : data[n].cmd = log_entry.cmd
    THEN [data EXCEPT ![CHOOSE n \in 1..Len(data) :
                            /\ data[n].cmd = log_entry.cmd
                            /\ \A m \in 1..(n - 1) :
                                  data[m].cmd # log_entry.cmd].entries =
                          Append(@, gen_response(log_entry))]
    ELSE Append(data, CmdEntry(log_entry.cmd, <<gen_response(log_entry)>>))

RECURSIVE gen_entries(_, _)
\* ProgramGenerator.__init__, "for i in self.parsed_log"
gen_entries(data, parsed_log) ==
    IF parsed_log = <<>> THEN data
    ELSE gen_entries(gen_entry(data, Head(parsed_log)), Tail(parsed_log))

\* ProgramGenerator.__init__: the dict of the program, with "the default
\* entry for unknown commands" and initial_out
ProgramGenerator(l) ==
    [data |-> Append(gen_entries(<<>>, parse_log(l, <<>>).parsed_log),
                     CmdEntry(<<"*">>,
                              <<Entry("QUEUE_OUT",
                                      <<<<"E", "1", "0", ":", "0", "0">>>>,
                                      0)>>)),
     initial_out |-> <<<<"O", "K", "\n">>>>]

\* ProgramGenerator.gen
gen(l) ==
    IF parse_log(l, <<>>).status # "ok"
    THEN [status |-> parse_log(l, <<>>).status,
          program |-> [data |-> <<>>, initial_out |-> <<>>]]
    ELSE from_dict(ProgramGenerator(l), NoCustom)

\* the member of Action that Action[name] gives, as a dict holds it once
\* _parse_entry has run on the entry ("entry['action'] = action")
Member(a) ==
    CASE a = "QUEUE_OUT" -> "Action.QUEUE_OUT"
      [] a = "QUEUE_OUT_MANY" -> "Action.QUEUE_OUT_MANY"
      [] a = "RUN_CUSTOM" -> "Action.RUN_CUSTOM"
      [] a = "NOP" -> "Action.NOP"

RECURSIVE parsed_entries(_, _)
\* the entries of a command of the dict once _parse_entry has run over
\* them, up to the entry that failed: _parse_entry writes the member, and
\* the handler, into the entry of the dict
parsed_entries(entries, custom) ==
    IF entries = <<>> THEN <<>>
    ELSE IF parse_entry(Head(entries), custom).status = "KeyError"
    THEN entries
    ELSE IF parse_entry(Head(entries), custom).status = "SystemExit"
    THEN <<[Head(entries) EXCEPT !.action = Member(@)]>> \o Tail(entries)
    ELSE <<[parse_entry(Head(entries), custom).entry
            EXCEPT !.action = Member(@)]>>
             \o parsed_entries(Tail(entries), custom)

RECURSIVE parsed_data(_, _)
\* prog['data'] once _parse_data has run over it
parsed_data(data, custom) ==
    IF data = <<>> THEN <<>>
    ELSE <<[Head(data) EXCEPT !.entries = parsed_entries(@, custom)]>>
             \o (IF parse_entries(Head(data).entries, custom).status = "ok"
                 THEN parsed_data(Tail(data), custom) ELSE Tail(data))

\* the dict prog after Program.from_dict(prog, custom) has run on it
after_from_dict(prog, custom) ==
    [prog EXCEPT !.data = parsed_data(@, custom)]

\* ProgramGenerator.write, json.dump(self.prog): TypeError for a dict that
\* holds a member of Action
write(prog) ==
    IF \E n \in 1..Len(prog.data) :
          \E k \in 1..Len(prog.data[n].entries) :
             prog.data[n].entries[k].action \notin Action
    THEN "TypeError" ELSE "ok"

\* the key of cmd_cnt for the READLINE events: VirtualPort.Event.READLINE
Event_READLINE == <<"Event.READLINE">>

get_next_out_newest(q) ==
    [res |-> encode_ascii(q[Len(q)]), out |-> SubSeq(q, 1, Len(q) - 1)]

\* VirtualModule._get_next_out on the queue q, which holds text: popleft
\* and encode('ascii')
get_next_out(q) == [res |-> encode_ascii(Head(q)), out |-> Tail(q)]

----------------------------------------------------------------------------
(* The Command under test: constructed once, then its methods are called   *)
(* in any order and any number of times.                                   *)

\* longest list payload enumerated element by element
MaxLen == 2

\* header arguments: every subset of the six caller flags, and the default
HeaderArgs == {h \in 0..BIN : h % 2 = 0}

\* 16-bit values used for channels, device ids and payload words
SomeWords == {0, 3, 255, 256, 65535}

ListsUpTo(n) == UNION {[1..m -> {0, 258, 65535}] : m \in 0..n}

\* a list payload one element longer than a 16-bit count can express
RECURSIVE Zeros(_)
\* a list of n zeros, built by doubling
Zeros(n) ==
    IF n = 0 THEN <<>>
    ELSE IF n % 2 = 1 THEN <<0>> \o Zeros(n - 1)
    ELSE LET h == Zeros(n \div 2) IN h \o h

LongList == Zeros(USHRT_MAX + 1)

\* every catalog command under every header, on one channel
ArgsCatalog ==
    [idx : CmdIndex, addr : {PyInt(3)}, addr_id : {0}, header : HeaderArgs,
     data : {PyNone, PyInt(5), PyList(<<7>>)}]

\* one command under every header with every channel, device id and payload
ArgsValues ==
    [idx : {"VCAL"}, addr : {PyInt(w) : w \in SomeWords},
     addr_id : {0, 258, 65535}, header : HeaderArgs,
     data : {PyNone} \cup {PyInt(w) : w \in SomeWords}
            \cup {PyList(l) : l \in ListsUpTo(MaxLen)}]

\* the over-long payload
ArgsLong ==
    [idx : {"V"}, addr : {PyInt(3)}, addr_id : {258},
     header : {DEXT, BitOr(DEXT, ADDM)}, data : {PyList(LongList)}]

CommandArgs == ArgsCatalog \cup ArgsValues \cup ArgsLong

Ret(op, status, bytes, flag) ==
    [op |-> op, status |-> status, out |-> bytes, flag |-> flag]

\* the Command under test, constructed from one of the argument tuples
InitCommand(A) ==
    /\ \E a \in A :
        /\ header_arg = a.header
        /\ cmd0 = post_init(Command(a.idx, a.addr, a.addr_id, a.header,
                                    a.data))
    /\ cmd = cmd0
    /\ ret = Ret("init", "ok", <<>>, FALSE)

\* a session right after construction, nothing sent yet: wait_for_responses
\* from W, the capacity of the log from L, the log handler from H
InitHandled(W, L, H) ==
    /\ wait_for_responses \in W
    /\ maxlen \in L
    /\ written = <<>>
    /\ log = <<>>
    /\ log_handler \in H
    /\ handled = <<>>
    /\ call = NoCall
    /\ pc = "idle"
    /\ out = <<>>
    /\ in_waiting = 0
    /\ emitted = 0
    /\ lines = <<>>
    /\ errs = <<>>
    /\ elapsed = 0
    /\ silent = 0
    /\ result = NoResult
    /\ retries = 0
    /\ tx0 = <<>>

\* a session built without a log handler
InitSession(W, L) == InitHandled(W, L, {NoHandler})

\* no simulator: the port is a serial port
NoProgram == [data |-> <<>>, initial_out |-> <<>>]

InitSerial ==
    /\ program = NoProgram
    /\ cmd_cnt = <<>>
    /\ tasks = {}

call_ascii ==
    LET r == ascii(cmd)
    IN  /\ cmd' = r.self
        /\ ret' = Ret("ascii", "ok", r.out, FALSE)
        /\ UNCHANGED <<header_arg, cmd0>>
        /\ UNCHANGED session_vars

call_binary ==
    LET r == binary(cmd)
    IN  /\ cmd' = r.self
        /\ ret' = Ret("binary", r.status, r.out, FALSE)
        /\ UNCHANGED <<header_arg, cmd0>>
        /\ UNCHANGED session_vars

call_type ==
    /\ ret' = Ret("type", "ok", <<type(cmd)>>, FALSE)
    /\ UNCHANGED <<header_arg, cmd0, cmd>>
    /\ UNCHANGED session_vars

call_allowed ==
    /\ ret' = Ret("allowed", "ok", <<>>, allowed(cmd))
    /\ UNCHANGED <<header_arg, cmd0, cmd>>
    /\ UNCHANGED session_vars

\* Codec: one Command, its methods called in any order
Init ==
    /\ InitCommand(CommandArgs)
    /\ InitSession({TRUE}, {PyInt(log_max_len)})
    /\ InitSerial

Next == call_ascii \/ call_binary \/ call_type \/ call_allowed

Spec == Init /\ [][Next]_vars

\* Command index: supports called on every member with every list of header
\* modes of up to MaxModes arguments
MaxModes == 2

call_supports ==
    /\ \E m \in 0..MaxModes : \E modes \in [1..m -> HeaderMode] :
          ret' = Ret("supports", "ok", modes, supports(cmd.idx, modes))
    /\ UNCHANGED <<header_arg, cmd0, cmd>>
    /\ UNCHANGED session_vars

InitI ==
    /\ InitCommand([idx : CmdIndex, addr : {PyInt(3)}, addr_id : {0},
                    header : {BIN}, data : {PyNone}])
    /\ InitSession({TRUE}, {PyInt(log_max_len)})
    /\ InitSerial

NextI == call_supports

SpecIndex == InitI /\ [][NextI]_vars

\* Session: commands issued through Qontroller.issue_command to a device
\* that stays silent
CommandIds ==
    {<<"V">>, <<"v">>, <<"n", "u", "p">>, <<"L", "e", "d">>,
     <<"n", "u", "p", "a", "l", "l">>}
ChArgs == {PyNone, PyInt(0), PyInt(12), PyStr(<<"a", "l", "l">>)}
Operators == {<<>>, <<"?">>, <<"=">>}
Values == {PyNone, PyInt(0), PyInt(5), PyList(<<1, 20>>)}

\* most lines the session writes before the model stops issuing commands
MaxWrites == 1

send ==
    /\ Len(written) < MaxWrites
    /\ \E command_id \in CommandIds, ch \in ChArgs, operator \in Operators,
          value \in Values :
            issue_command(command_id, ch, operator, value, PyNone, {})

InitS ==
    /\ InitCommand({[idx |-> "V", addr |-> PyInt(0), addr_id |-> 0,
                     header |-> BIN, data |-> PyNone]})
    /\ InitSession(BOOLEAN, {PyInt(log_max_len)})
    /\ InitSerial

NextS == send \/ collect_receive \/ collect_break \/ Tick

SpecSession == InitS /\ [][NextS]_vars

\* Collection: the first send of a session, through any of the four entry
\* points, to a device on a serial port that answers with any lines at any
\* time
DeviceLines ==
    {<<"O", "K", "\n">>,
     <<"Q", "8", "i", "v", "-", "0", "0", "0", "0", "\n">>,
     <<"E", "1", "5", ":", "0", "\n">>,
     <<"E", "1", "0", ":", "3", "\n">>,
     <<"E", "0", "7", ":", "1", "\n">>}

TargetSets == {{}, {7, 10}, {10, 15}}

SentCommands ==
    {[idx |-> "V", addr |-> PyInt(3), addr_id |-> 0, header |-> BIN,
      data |-> PyNone],
     [idx |-> "V", addr |-> PyInt(3), addr_id |-> 0, header |-> BIN,
      data |-> PyInt(5)],
     [idx |-> "V", addr |-> PyInt(3), addr_id |-> 0, header |-> BIN,
      data |-> PyList(<<1, 20>>)]}

\* n_lines_requested: the default (2**31, no limit the device reaches) or
\* one line
LinesRequested == {PyNone, PyInt(1)}

BinaryFlags == {[NoFlags EXCEPT !.RW = rw] : rw \in {0, 1}}

sendC ==
    /\ call = NoCall
    /\ \/ \E command_id \in {<<"v">>, <<"n", "u", "p", "a", "l", "l">>},
             operator \in {<<"?">>, <<"=">>}, T \in TargetSets,
             n_lines_requested \in LinesRequested :
               issue_command(command_id, PyInt(12), operator,
                             IF operator = <<"=">> THEN PyInt(5) ELSE PyNone,
                             n_lines_requested, T)
       \/ \E command_id \in {<<"V">>, <<"v">>}, flags \in BinaryFlags,
             value_int \in {PyInt(5), PyList(<<1, 20>>)},
             T \in TargetSets, n_lines_requested \in LinesRequested :
               issue_binary_command(command_id, PyInt(12), flags, value_int, 0,
                                    n_lines_requested, T)
       \/ \E A \in SentCommands : send_ascii(A)
       \/ \E A \in SentCommands : send_binary(A)

InitC ==
    /\ InitCommand({[idx |-> "V", addr |-> PyInt(0), addr_id |-> 0,
                     header |-> BIN, data |-> PyNone]})
    /\ InitSession(BOOLEAN, {PyNone, PyInt(log_max_len)})
    /\ InitSerial

NextC ==
    \/ sendC
    \/ collect_receive
    \/ collect_break
    \/ Tick
    \/ \E line \in DeviceLines : device_send(line)

SpecCollect == InitC /\ [][NextC]_vars

\* Simulator: writes to a virtual port and the threads that answer them
MaxPortWrites == 3

Line_id == <<"i", "d", "?", "\n">>
Line_ID == <<"I", "D", "?", "\n">>
Line_v == <<"v", "1", "2", "?", "\n">>
Line_Q8iv == <<"Q", "8", "i", "v", "-", "0", "0", "0", "0", "\n">>
Line_E10 == <<"E", "1", "0", ":", "0", "0">>

\* "id?\n" answered with the device id; no default entry
Program_id ==
    [data |-> <<CmdEntry(Line_id,
                         <<Entry("QUEUE_OUT", <<Line_Q8iv>>, 0)>>)>>,
     initial_out |-> <<>>]

\* a command with three entries in turn, and the default entry and the
\* initial_out that ProgramGenerator adds
Program_turns ==
    [data |-> <<CmdEntry(Line_id,
                         <<Entry("QUEUE_OUT", <<Line_Q8iv>>, 0),
                           Entry("QUEUE_OUT_MANY",
                                 <<Line_Q8iv, RESPONSE_OK>>, 1),
                           Entry("NOP", <<>>, 0)>>),
                CmdEntry(<<"*">>,
                         <<Entry("QUEUE_OUT", <<Line_E10>>, 0),
                           Entry("QUEUE_OUT", <<RESPONSE_OK>>, 1)>>)>>,
     initial_out |-> <<RESPONSE_OK>>]

\* VirtualModule.__init__: the simulator of one of the programs P
InitVM(P) ==
    /\ program \in P
    /\ cmd_cnt = (<<"a", "l", "l">> :> 0)
    /\ tasks = {}

vm_step ==
    \/ \E w \in 1..Len(written) : vm_start(w)
    \/ \E t \in tasks : vm_check(t)
    \/ \E t \in tasks : vm_new(t)
    \/ \E t \in tasks : vm_load(t)
    \/ \E t \in tasks : vm_store(t)
    \/ \E t \in tasks : vm_index(t)
    \/ \E t \in tasks : vm_queue_out(t)
    \/ \E t \in tasks : vm_inc_load(t)
    \/ \E t \in tasks : vm_inc_store(t)

InitV ==
    /\ InitCommand({[idx |-> "V", addr |-> PyInt(0), addr_id |-> 0,
                     header |-> BIN, data |-> PyNone]})
    /\ InitSession({TRUE}, {PyInt(log_max_len)})
    /\ InitVM({Program_id, Program_turns})

writeV ==
    /\ Len(written) < MaxPortWrites
    /\ \E command_string \in {Line_id, Line_v} : port_write(command_string)

NextV == writeV \/ vm_step \/ TickVM

SpecVM == InitV /\ [][NextV]_vars

\* Session and simulator: the first send of a session whose port is the
\* virtual port of a simulator
sendX ==
    /\ call = NoCall
    /\ \E command_id \in {<<"i", "d">>, <<"I", "D">>, <<"v">>} :
          issue_command(command_id, PyNone, <<"?">>, PyNone, PyNone, {})

InitX ==
    /\ InitCommand({[idx |-> "V", addr |-> PyInt(0), addr_id |-> 0,
                     header |-> BIN, data |-> PyNone]})
    /\ InitSession(BOOLEAN, {PyInt(log_max_len)})
    /\ InitVM({Program_id, Program_turns})

NextX == sendX \/ collect_receive \/ collect_break \/ vm_step \/ TickVM

SpecVirtual == InitX /\ [][NextX]_vars

\* Segmented responses: the first send of a session to a simulator that
\* answers "v?\n" in frames; five lines in two frames, two lines after
\* one tick and three after two ticks more (a tick standing for 5 ms)
Line_vq == <<"v", "?", "\n">>
Items == <<<<"1", "\n">>, <<"2", "\n">>, <<"3", "\n">>, <<"4", "\n">>,
           <<"5", "\n">>>>

Program_frames ==
    [data |-> <<CmdEntry(Line_vq,
                         <<EntryDivide(Items, <<2, 3>>, <<1, 2>>)>>)>>,
     initial_out |-> <<>>]

\* three lines in three frames, the second one empty
Program_frames3 ==
    [data |-> <<CmdEntry(Line_vq,
                         <<EntryDivide(SubSeq(Items, 1, 3), <<1, 0, 2>>,
                                       <<0, 1, 1>>)>>)>>,
     initial_out |-> <<>>]

sendF ==
    /\ call = NoCall
    /\ issue_command(<<"v">>, PyNone, <<"?">>, PyNone, PyNone, {})

InitF ==
    /\ InitCommand({[idx |-> "V", addr |-> PyInt(0), addr_id |-> 0,
                     header |-> BIN, data |-> PyNone]})
    /\ InitSession(BOOLEAN, {PyInt(log_max_len)})
    /\ InitVM({Program_frames, Program_frames3})

NextF == sendF \/ collect_receive \/ collect_break \/ vm_step \/ TickVM

SpecFrames == InitF /\ [][NextF]_vars

\* Loading: a Program is loaded from a dict with Program.from_dict, a
\* simulator is constructed from it, and commands are written to its port
MaxLoadWrites == 2

\* entries as a dict gives them: 'action' a name, 'func' the name of a
\* handler
RawEntries ==
    {Entry("QUEUE_OUT", <<Line_Q8iv>>, 1), Entry("BOGUS", <<>>, 0)}
        \cup {EntryCustom([name |-> f, registered |-> FALSE]) :
                 f \in {"handle_unknown_command", "missing", "register",
                        "__class__"}}

Dicts ==
    {[data |-> <<CmdEntry(Line_id, <<e1>>), CmdEntry(<<"*">>, <<e2>>)>>,
      initial_out |-> <<>>] : e1 \in RawEntries, e2 \in RawEntries}

Customs == {NoCustom, CustomHandler({"handle_unknown_command"})}

\* VirtualModule(Program.from_dict(prog, custom))
load ==
    /\ ret.op = "init"
    /\ \E prog \in Dicts, custom \in Customs :
          /\ ret' = Ret("from_dict", from_dict(prog, custom).status, <<>>,
                        FALSE)
          /\ IF from_dict(prog, custom).status = "ok"
             THEN /\ program' = from_dict(prog, custom).program
                  /\ cmd_cnt' = (<<"a", "l", "l">> :> 0)
             ELSE UNCHANGED <<program, cmd_cnt>>
    /\ UNCHANGED <<header_arg, cmd0, cmd, config_vars, handler_vars, written,
                   log, call,
                   pc, port_vars, loop_vars, result, retries, tx0, tasks>>

writeL ==
    /\ ret.op = "from_dict"
    /\ ret.status = "ok"
    /\ Len(written) < MaxLoadWrites
    /\ \E command_string \in {Line_id, Line_v} : port_write(command_string)

InitL ==
    /\ InitCommand({[idx |-> "V", addr |-> PyInt(0), addr_id |-> 0,
                     header |-> BIN, data |-> PyNone]})
    /\ InitSession({TRUE}, {PyInt(log_max_len)})
    /\ InitSerial

NextL == load \/ writeL \/ vm_step \/ TickVM

SpecLoad == InitL /\ [][NextL]_vars

\* Replay: the first send of a session to a device on a serial port, then
\* a Program generated from the log of that session, a simulator of it and
\* a new session on its port, which sends the same command.  ret keeps
\* what the send of the first session ended with, and whether it asked
\* for one line
sendR ==
    /\ call = NoCall
    /\ \E n_lines_requested \in LinesRequested :
          /\ ret.op = "original" => ret.flag = (n_lines_requested = PyInt(1))
          /\ issue_command(<<"i", "d">>, PyNone, <<"?">>, PyNone,
                           n_lines_requested, {})

replay ==
    /\ ret.op = "init"
    /\ pc = "idle"
    /\ call # NoCall
    /\ gen(log).status = "ok"
    /\ ret' = Ret("original", result.status, result.values,
                  call.n_lines_requested = PyInt(1))
    /\ program' = gen(log).program
    /\ cmd_cnt' = (<<"a", "l", "l">> :> 0)
    /\ tasks' = {}
    /\ written' = <<>>
    /\ log' = <<>>
    /\ call' = NoCall
    /\ out' = <<>>
    /\ in_waiting' = 0
    /\ emitted' = 0
    /\ lines' = <<>>
    /\ errs' = <<>>
    /\ elapsed' = 0
    /\ silent' = 0
    /\ result' = NoResult
    /\ retries' = 0
    /\ tx0' = <<>>
    /\ UNCHANGED <<header_arg, cmd0, cmd, config_vars, handler_vars, pc>>

InitR ==
    /\ InitCommand({[idx |-> "V", addr |-> PyInt(0), addr_id |-> 0,
                     header |-> BIN, data |-> PyNone]})
    /\ InitSession({TRUE}, {PyNone})
    /\ InitSerial

NextR ==
    \/ sendR
    \/ collect_receive
    \/ collect_break
    \/ ret.op = "init" /\ Tick
    \/ ret.op = "init" /\ \E line \in DeviceLines : device_send(line)
    \/ replay
    \/ ret.op = "original" /\ vm_step
    \/ ret.op = "original" /\ TickVM

SpecReplay == InitR /\ [][NextR]_vars

\* Log handler: the first send of a session built with
\* log_handler = generic_log_handler('all') or generic_log_handler([10]),
\* to a device on a serial port that answers with any lines at any time
LogHandlers ==
    {generic_log_handler(TRUE, {}), generic_log_handler(FALSE, {10})}

InitH ==
    /\ InitCommand({[idx |-> "V", addr |-> PyInt(0), addr_id |-> 0,
                     header |-> BIN, data |-> PyNone]})
    /\ InitHandled({TRUE}, {PyNone, PyInt(log_max_len), PyInt(0)},
                   LogHandlers)
    /\ InitSerial

NextH ==
    \/ sendC
    \/ collect_receive
    \/ collect_break
    \/ Tick
    \/ \E line \in DeviceLines : device_send(line)

SpecHandler == InitH /\ [][NextH]_vars

\* Reading the port: commands are written to the virtual port of a
\* simulator that answers in frames, and readline is called on the port at
\* any time
MaxReadWrites == 1

\* most calls of readline the model follows
MaxReads == 3

\* VirtualPort.readline, called on the port: handle_event counts the event
\* and returns _get_next_out(); popleft of an empty queue is IndexError
readline ==
    /\ read_cmd_cnt(Event_READLINE) < MaxReads
    /\ cmd_cnt' = [k \in DOMAIN cmd_cnt \cup {Event_READLINE} |->
                      IF k = Event_READLINE
                      THEN read_cmd_cnt(Event_READLINE) + 1
                      ELSE IF k = <<"a", "l", "l">> THEN cmd_cnt[k] + 1
                      ELSE cmd_cnt[k]]
    /\ IF out = <<>>
       THEN /\ ret' = Ret("readline", "IndexError", <<>>, FALSE)
            /\ UNCHANGED <<out, in_waiting>>
       ELSE /\ ret' = Ret("readline", "ok", get_next_out(out).res, FALSE)
            /\ out' = get_next_out(out).out
            /\ in_waiting' = in_waiting - 1
    /\ UNCHANGED <<header_arg, cmd0, cmd, config_vars, handler_vars, written,
                   log, call, pc, emitted, loop_vars, result, retries, tx0,
                   program, tasks>>
writeP ==

    /\ Len(written) < MaxReadWrites
    /\ port_write(Line_vq)

InitP ==
    /\ InitCommand({[idx |-> "V", addr |-> PyInt(0), addr_id |-> 0,
                     header |-> BIN, data |-> PyNone]})
    /\ InitSession({TRUE}, {PyInt(log_max_len)})
    /\ InitVM({Program_frames, Program_frames3})

NextP == writeP \/ readline \/ vm_step \/ TickVM

SpecReadline == InitP /\ [][NextP]_vars

\* Generation: a session on a serial port waits, or sends its first
\* command, or both; then a ProgramGenerator is built from its log, and
\* gen and write are called on it.  ret keeps the dict of the generator
\* (self.prog), and whether gen has been called
sendG ==
    /\ ret.op = "init"
    /\ call = NoCall
    /\ \/ \E operator \in {<<"?">>, <<"=">>},
             n_lines_requested \in LinesRequested :
               issue_command(<<"v">>, PyInt(12), operator,
                             IF operator = <<"=">> THEN PyInt(5) ELSE PyNone,
                             n_lines_requested, {})
       \/ issue_binary_command(<<"V">>, PyInt(12), [NoFlags EXCEPT !.RW = 1],
                               PyInt(5), 0, PyNone, {})

\* ProgramGenerator(name, log)
generate ==
    /\ ret.op = "init"
    /\ pc = "idle"
    /\ ret' = IF parse_log(log, <<>>).status = "ok"
              THEN Ret("ProgramGenerator", "ok", ProgramGenerator(log),
                       FALSE)
              ELSE Ret("ProgramGenerator", parse_log(log, <<>>).status,
                       <<>>, FALSE)
    /\ UNCHANGED <<header_arg, cmd0, cmd>>
    /\ UNCHANGED session_vars

\* a ProgramGenerator has been built
generated ==
    \/ ret.op = "ProgramGenerator" /\ ret.status = "ok"
    \/ ret.op \in {"gen", "write"}

\* ProgramGenerator.gen: Program.from_dict(self.prog)
call_gen ==
    /\ generated
    /\ ret' = Ret("gen", from_dict(ret.out, NoCustom).status,
                  after_from_dict(ret.out, NoCustom), TRUE)
    /\ program' = IF from_dict(ret.out, NoCustom).status = "ok"
                  THEN from_dict(ret.out, NoCustom).program ELSE program
    /\ UNCHANGED <<header_arg, cmd0, cmd, config_vars, handler_vars, written,
                   log, call, pc, port_vars, loop_vars, result, retries, tx0,
                   cmd_cnt, tasks>>

\* ProgramGenerator.write
call_write ==
    /\ generated
    /\ ret' = Ret("write", write(ret.out), ret.out, ret.flag)
    /\ UNCHANGED <<header_arg, cmd0, cmd>>
    /\ UNCHANGED session_vars

InitG ==
    /\ InitCommand({[idx |-> "V", addr |-> PyInt(0), addr_id |-> 0,
                     header |-> BIN, data |-> PyNone]})
    /\ InitSession({TRUE}, {PyNone, PyInt(log_max_len)})
    /\ InitSerial

NextG ==
    \/ sendG
    \/ collect_receive
    \/ collect_break
    \/ Tick
    \/ ret.op = "init" /\ \E line \in DeviceLines : device_send(line)
    \/ ret.op = "init" /\ call = NoCall /\ wait_start
    \/ wait_receive
    \/ wait_end
    \/ generate
    \/ call_gen
    \/ call_write

SpecGen == InitG /\ [][NextG]_vars

\* Two sends: a session on the port of a simulator sends two commands, one
\* after the other.  "v?\n" is answered with two lines at once, "id?\n"
\* with the device id once the session has stopped waiting
MaxSends == 2

Program_late ==
    [data |-> <<CmdEntry(Line_vq,
                         <<Entry("QUEUE_OUT_MANY",
                                 <<Items[1], Items[2]>>, 0)>>),
                CmdEntry(Line_id,
                         <<Entry("QUEUE_OUT", <<Line_Q8iv>>, 3)>>)>>,
     initial_out |-> <<>>]

sendT ==
    /\ Len(written) < MaxSends
    /\ \E command_id \in {<<"i", "d">>, <<"v">>} :
          \E n_lines_requested \in LinesRequested :
             issue_command(command_id, PyNone, <<"?">>, PyNone,
                           n_lines_requested, {})

InitT ==
    /\ InitCommand({[idx |-> "V", addr |-> PyInt(0), addr_id |-> 0,
                     header |-> BIN, data |-> PyNone]})
    /\ InitSession({TRUE}, {PyInt(log_max_len)})
    /\ InitVM({Program_late})

NextT == sendT \/ collect_receive \/ collect_break \/ vm_step \/ TickVM

SpecTwo == InitT /\ [][NextT]_vars

\* Encoding: the first send of a session on the port of a simulator, a
\* catalog command under any header sent through send_binary or send_ascii.  The
\* program lists one binary command under the hex text of its bytes, as
\* ProgramGenerator files it, and answers every other command with OK
Args_V3 == [idx |-> "V", addr |-> PyInt(3), addr_id |-> 0, header |-> BIN,
            data |-> PyInt(5)]

Program_hex ==
    [data |-> <<CmdEntry(hex(binary(post_init(
                                 Command(Args_V3.idx, Args_V3.addr,
                                         Args_V3.addr_id, Args_V3.header,
                                         Args_V3.data))).out),
                         <<Entry("QUEUE_OUT", <<Line_Q8iv>>, 0)>>),
                CmdEntry(<<"*">>,
                         <<Entry("QUEUE_OUT", <<RESPONSE_OK>>, 0)>>)>>,
     initial_out |-> <<>>]

sendE ==
    /\ call = NoCall
    /\ \/ \E A \in ArgsCatalog : send_binary(A)
       \/ \E A \in ArgsCatalog : send_ascii(A)

InitE ==
    /\ InitCommand({Args_V3})
    /\ InitSession({TRUE}, {PyNone})
    /\ InitVM({Program_hex})

NextE == sendE \/ collect_receive \/ collect_break \/ vm_step \/ TickVM

SpecEncoding == InitE /\ [][NextE]_vars

----------------------------------------------------------------------------
(* Properties of the command codec *)

\* number of set bits of a byte
PopCount(x) ==
    Bit(x, 0) + Bit(x, 1) + Bit(x, 2) + Bit(x, 3) + Bit(x, 4) + Bit(x, 5)
    + Bit(x, 6) + Bit(x, 7)

\* the flags of a header, as the set of their bit positions
FlagSet(h) == {n \in 1..7 : Bit(h, n) = 1}

\* the command lies in the domain the encoder is specified for: an integer
\* channel that fits the addressing mode, and a payload that fits the data
\* mode with an element count a 16-bit prefix can express
Encodable(c) ==
    /\ c.addr.k = "int"
    /\ c.addr.i <= (IF In(ADDM, c.header) THEN 255 ELSE USHRT_MAX)
    /\ IF In(DEXT, c.header)
       THEN c.data.k = "list" /\ Len(c.data.s) <= USHRT_MAX
       ELSE c.data.k \in {"none", "int"}

\* C1: for every catalog command, header, channel, device id and payload
\* in the encoder's domain, Command.binary() succeeds and returns exactly
\* the bytes of the legacy reference encoder expected_binary.
C1_BinaryEqualsLegacy ==
    (ret.op = "binary" /\ Encodable(cmd)) =>
        /\ ret.status = "ok"
        /\ expected_binary(cmd).status = "ok"
        /\ ret.out = expected_binary(cmd).out

C1_Witness ==
    /\ ret.op = "binary" /\ ret.status = "ok" /\ Encodable(cmd)
    /\ In(DEXT, cmd.header) /\ In(ADDM, cmd.header) /\ In(BCAST, cmd.header)
    /\ cmd.data.s = <<258, 65535>>
    /\ cmd.addr.i = 255 /\ cmd.addr_id = 258

\* C2: the header byte emitted by Command.binary() carries the BINARY bit
\* and the command's flags, and has an even number of set bits: the parity
\* bit 0x01 is set exactly when the seven flag bits have odd population
\* count.
C2_HeaderEvenParity ==
    (ret.op = "binary" /\ ret.status = "ok") =>
        LET b == ret.out[1]
        IN  /\ Bit(b, 7) = 1
            /\ FlagSet(b) = FlagSet(cmd.header)
            /\ PopCount(b) % 2 = 0
            /\ (Bit(b, 0) = 1) <=> (Cardinality(FlagSet(cmd.header)) % 2 = 1)

C2_Witness ==
    /\ ret.op = "binary" /\ ret.status = "ok"
    /\ FlagSet(cmd.header) = {7, 6, 3}
    /\ ret.out[1] = 201

\* C3: Command.allowed() is true if and only if the command's active flag
\* combination is exactly the flag combination of one of the HeaderMode
\* values declared for its command index; it is false for every other
\* combination, in particular for any carrying ADDM or BCAST.
C3_AllowedIffDeclared ==
    ret.op = "allowed" =>
        /\ ret.flag <=> (\E m \in header_modes[cmd.idx] :
                            FlagSet(m) = FlagSet(cmd.header))
        /\ (In(ADDM, cmd.header) \/ In(BCAST, cmd.header)) => ~ret.flag

C3_Witness ==
    /\ ret.op = "allowed" /\ ret.flag
    /\ cmd.idx = "INTEST" /\ cmd.header = ACT_M

\* C4: when DATA_EXTENDED is unset the data field is one big-endian 16-bit
\* value (0 when no data was supplied); when it is set the data field is a
\* 16-bit element count followed by that many 16-bit values in list order,
\* the count being capped at 65535 for longer lists, and encoding succeeds.
C4_DataFieldCapped ==
    (/\ ret.op = "binary"
     /\ binary_addr(cmd).status = "ok"
     /\ cmd.data.k = (IF In(DEXT, cmd.header) THEN "list" ELSE "int")) =>
        /\ ret.status = "ok"
        /\ IF In(DEXT, cmd.header)
           THEN LET n == IF Len(cmd.data.s) > 65535 THEN 65535
                         ELSE Len(cmd.data.s)
                IN  /\ Len(ret.out) = 7 + 2 * n
                    /\ ret.out[6] * 256 + ret.out[7] = n
                    /\ \A j \in 1..n :
                         ret.out[6 + 2 * j] * 256 + ret.out[7 + 2 * j]
                            = cmd.data.s[j]
           ELSE /\ Len(ret.out) = 7
                /\ ret.out[6] * 256 + ret.out[7] = cmd.data.i
                /\ cmd0.data.k = "none" => cmd.data.i = 0

\* C5: the address field is (0x00, channel high byte, channel low byte)
\* when DEVICE_ADDRESSED is unset and (device id high byte, device id low
\* byte, channel byte) when it is set, and it always occupies exactly the
\* three bytes at offsets 2..4, between the command code and the data.
C5_AddressLayout ==
    (ret.op = "binary" /\ ret.status = "ok") =>
        /\ Len(ret.out) = 5 + (IF In(DEXT, cmd.header)
                               THEN 2 + 2 * Len(cmd.data.s) ELSE 2)
        /\ ret.out[2] = code[cmd.idx]
        /\ SubSeq(ret.out, 3, 5) =
             IF In(ADDM, cmd.header)
             THEN <<cmd.addr_id \div 256, cmd.addr_id % 256, cmd.addr.i>>
             ELSE <<0, cmd.addr.i \div 256, cmd.addr.i % 256>>

C5_Witness ==
    /\ ret.op = "binary" /\ ret.status = "ok"
    /\ In(ADDM, cmd.header) /\ cmd.addr_id = 258 /\ cmd.addr.i = 255
    /\ SubSeq(ret.out, 3, 5) = <<1, 2, 255>>

\* decoding by the documented frame layout: flags from the header byte,
\* code from byte 1, address per ADDM, data per DEXT; a frame whose length
\* does not fit its count decodes to no data
decodeBinary(b) ==
    LET addm == Bit(b[1], 4) = 1
        dext == Bit(b[1], 1) = 1
        n == IF dext THEN b[6] * 256 + b[7] ELSE 1
        at == IF dext THEN 7 ELSE 5
    IN  [flags |-> FlagSet(b[1]),
         code |-> b[2],
         addr |-> IF addm THEN b[5] ELSE b[4] * 256 + b[5],
         addr_id |-> IF addm THEN b[3] * 256 + b[4] ELSE 0,
         data |-> IF Len(b) # at + 2 * n THEN <<>>
                  ELSE [j \in 1..n |->
                           b[at + 2 * j - 1] * 256 + b[at + 2 * j]],
         length |-> at + 2 * n]

\* C6: decoding the bytes of Command.binary() by the documented layout
\* consumes all of them and reproduces the command's flags, numeric code,
\* channel, device id (when device-addressed) and data values exactly, so
\* commands that differ in any of these never encode to the same bytes.
C6_DecodeReproduces ==
    (ret.op = "binary" /\ ret.status = "ok") =>
        LET d == decodeBinary(ret.out)
        IN  /\ Len(ret.out) >= 7
            /\ d.length = Len(ret.out)
            /\ d.flags = FlagSet(cmd.header)
            /\ d.code = code[cmd.idx]
            /\ d.addr = cmd.addr.i
            /\ In(ADDM, cmd.header) => d.addr_id = cmd.addr_id
            /\ d.data = (IF In(DEXT, cmd.header) THEN cmd.data.s
                         ELSE <<cmd.data.i>>)

C6_Witness ==
    /\ ret.op = "binary" /\ ret.status = "ok"
    /\ In(DEXT, cmd.header) /\ ~In(ADDM, cmd.header)
    /\ cmd.addr.i = 65535 /\ cmd.data.s = <<65535, 258>>
    /\ decodeBinary(ret.out).data = <<65535, 258>>

\* C7: constructing a Command forces the BINARY flag on and adds the READ
\* flag when the data is absent; when data is supplied (any scalar,
\* including 0, or any list) and the caller did not pass READ, construction
\* does not add READ, so Command.type() is SET.
C7_ReadOnlyWhenDataAbsent ==
    /\ In(BIN, cmd0.header)
    /\ cmd0.data.k = "none" => In(RW, cmd0.header)
    /\ (cmd0.data.k # "none" /\ ~In(RW, header_arg)) =>
           /\ ~In(RW, cmd0.header)
           /\ (ret.op = "type" /\ cmd.header = cmd0.header) =>
                  ret.out = <<SET>>

\* C9: Command.ascii() returns name + channel token + operator + value
\* token + newline: the operator is '?' when READ is set and '=' otherwise,
\* the channel token is ALL when ALL_CHANNELS is set, list data is joined
\* by commas, and the value token is empty exactly when the command has no
\* data; for a read command without data this is the legacy formatter's
\* output.
C9_AsciiLayout ==
    ret.op = "ascii" =>
        LET ch == IF In(ALLCH, cmd.header) THEN <<"A", "L", "L">>
                  ELSE str(cmd.addr)
            op == IF In(RW, cmd.header) THEN "?" ELSE "="
            value == CASE cmd0.data.k = "none" -> <<>>
                       [] cmd0.data.k = "int" -> int_str(cmd0.data.i)
                       [] OTHER -> IF cmd0.data.s = <<>> THEN <<>>
                                   ELSE Tail(join_comma(cmd0.data.s))
        IN  /\ ret.out = idx_str[cmd.idx] \o ch \o <<op>> \o value \o <<"\n">>
            /\ (In(RW, cmd.header) /\ cmd.data.k = "none") =>
                   ret.out = expected_ascii(cmd)

\* C10: a Command is not changed by encoding it: after any sequence of
\* calls to ascii(), binary(), type() and allowed() its fields equal their
\* values right after construction, and binary() returns what it returns
\* on a freshly constructed equal command.
C10_EncodingLeavesCommandUnchanged ==
    /\ cmd = cmd0
    /\ ret.op = "binary" =>
           /\ ret.status = binary(cmd0).status
           /\ ret.out = binary(cmd0).out

----------------------------------------------------------------------------
(* Properties of issue_command *)

\* C8: for a call of issue_command with a registered command name, the line
\* written to the byte stream is command_id + ch + operator + value +
\* newline: the channel token is the decimal channel for every integer
\* channel including 0 (empty only when no channel was given), the operator
\* is the one the caller passed, and the value token is the decimal value
\* for every supplied value including 0.  (Stated for names in one letter
\* case, channels that are absent or integers, and writes that carry a
\* value.)
C8_IssueCommandLine ==
    (/\ call.outcome = "sent"
     /\ islower(call.command_id) \/ upper(call.command_id) = call.command_id
     /\ call.ch.k \in {"none", "int"}
     /\ call.operator \in {<<"?">>, <<"=">>}
     /\ call.operator = <<"=">> => call.value.k # "none") =>
        LET ch == IF call.ch.k = "none" THEN <<>> ELSE int_str(call.ch.i)
            value == CASE call.value.k = "none" -> <<>>
                       [] call.value.k = "int" -> int_str(call.value.i)
                       [] OTHER -> IF call.value.s = <<>> THEN <<>>
                                   ELSE Tail(join_comma(call.value.s))
        IN  /\ Len(written) > 0
            /\ written[Len(written)] =
                 encode_ascii(call.command_id \o ch \o call.operator \o value
                              \o <<"\n">>)
----------------------------------------------------------------------------
(* Properties of response collection *)

\* the error entries the log holds whose code is in the set T
logged_errs(T) ==
    {n \in 1..Len(log) : log[n].type = "err" /\ log[n].id.i \in T}

\* a send has ended
ended == pc = "idle" /\ call.entry # "none"

\* C11: whatever the entry point, when an error whose code is in the
\* caller's target set was received during collection (code 15 included,
\* writes included), the send ends with the target-error failure: it does
\* not return, retry or only warn.
C11_TargetErrorFails ==
    (ended /\ logged_errs(call.target_errors) # {}) =>
        result.status = "TargetError"

\* C12: every error the session parsed from a received line has for code
\* the integer of group 1 of the error grammar and for channel the integer
\* of group 2, whether or not the code is in the description table (so that
\* an error with wire code k is fatal exactly when k is in the target set).
C12_ErrorCodeIsWireCode ==
    \A n \in 1..Len(log) :
        log[n].type = "err" =>
            LET e_match == ERROR_FORMAT(log[n].raw.s)
            IN  /\ e_match.ok
                /\ log[n].id = PyInt(int(e_match.group1))
                /\ log[n].ch = PyInt(int(e_match.group2))

\* a pass of the collection loop reads the port and finds a communication
\* error (code 15) among the errors read
observes_comm_error ==
    /\ pc = "receive"
    /\ in_waiting > 0
    /\ in_waiting' = 0
    /\ \E n \in 1..Len(receive.errs) : receive.errs[n].id = 15

\* C13: whatever the entry point, each time the collection loop observes a
\* communication error the session writes the bytes of the original
\* transmission once more, and nothing else.
C13_RetransmitOnce ==
    [][observes_comm_error => written' = Append(written, tx0)]_vars

\* C14: the retransmissions that communication errors cause within one send
\* are bounded by a retry ceiling, past which the send ends in an error: a
\* device that answers every transmission with a communication error cannot
\* make the send retransmit as often as it answers.  (Stated for a ceiling
\* below MaxRetries, the retransmissions the model follows.)
C14_RetryCeiling ==
    retries < MaxRetries

\* the collection loop ends by one of its break conditions
loop_ends == pc = "receive" /\ break_condition /\ pc' = "idle"

\* C15: when the collection loop ends, the send fails with the timeout
\* failure if and only if the loop received no data line and no error;
\* otherwise it returns one value per data line received, in arrival order
\* (none when only errors were received), each the line without its
\* terminator.
C15_TimeoutIffNothingReceived ==
    [][loop_ends =>
        /\ result'.status = "TimeoutError" <=> (lines = <<>> /\ errs = <<>>)
        /\ ~(lines = <<>> /\ errs = <<>>) =>
              /\ result'.status = "returned"
              /\ Len(result'.values) = Len(lines)
              /\ \A n \in 1..Len(lines) :
                    result'.values[n][1] \o <<"\n">> = lines[n]]_vars

\* the command the send transmitted is a read
sent_read ==
    CASE call.entry = "issue_command" -> call.operator = <<"?">>
      [] call.entry = "issue_binary_command" -> call.flags.RW = 1
      [] OTHER -> type(cmd0) = GET

\* C16: whatever the entry point and the setting of wait_for_responses, a
\* send that transmitted a read enters response collection; a send skips
\* collection only for a write, and only when the session does not wait for
\* the responses to writes.
C16_ReadAlwaysCollects ==
    (call.outcome = "sent" /\ result.status = "returned None") =>
        ~sent_read /\ ~wait_for_responses

\* a send fails while its command is encoded
encoding_fails == call' # call /\ call'.outcome \notin {"none", "sent"}

\* C17: when encoding fails (an unregistered command name, or data whose
\* type does not fit the header mode of a binary send), the send fails at
\* once with the encoder's exception: nothing is written to the byte
\* stream, the log is unchanged, nothing is collected or retried.
C17_EncodingFailureWritesNothing ==
    [][encoding_fails =>
        /\ written' = written
        /\ log' = log
        /\ pc' = "idle"
        /\ retries' = 0
        /\ result'.status = call'.outcome]_vars

C17_Witness ==
    /\ call.entry = "issue_binary_command"
    /\ call.value.k = "list"
    /\ call.outcome \notin {"none", "sent"}
    /\ result.status = call.outcome

----------------------------------------------------------------------------
(* Properties of the session log *)

\* the log new comes from the log old by appending entries and evicting,
\* only when the capacity would be exceeded, the oldest ones: the entries
\* kept are the most recent of old, in their order, before the appended ones
fifo_step(old, new) ==
    \E k \in 0..Len(old) :
        /\ k <= Len(new)
        /\ SubSeq(new, 1, k) = SubSeq(old, Len(old) - k + 1, Len(old))
        /\ k < Len(old) => maxlen.k = "int" /\ Len(new) = maxlen.i

\* C18: after every session operation the log holds at most log_max_len
\* entries; an append that would exceed the capacity evicts exactly the
\* oldest entry and keeps the order of the others (the entry of the latest
\* transmission is the newest one); with log_max_len = None nothing is ever
\* evicted.
C18_LogBoundedFifo ==
    [][/\ maxlen.k = "int" => Len(log') <= maxlen.i
       /\ fifo_step(log, log')
       /\ written' # written =>
             /\ Len(log') > 0
             /\ log'[Len(log')].type \in {"tx", "get", "set"}]_vars

\* the transmission that opens the log of a send has been evicted and the
\* log is full
C18_Witness ==
    /\ maxlen = PyInt(log_max_len)
    /\ call.outcome = "sent"
    /\ Len(log) = log_max_len
    /\ log[1].type # "tx"
    /\ log[Len(log)].type = "err"

----------------------------------------------------------------------------
(* Properties of the simulator *)

\* how many of the first w writes carry the bytes of the w-th write
nth_write(w) == Cardinality({v \in 1..w : written[v] = written[w]})

\* the thread has chosen its response entry
dispatched(t) == t.pc \in {"sleep", "done"} /\ Len(t.entries) > 0

\* C19: whatever the writes and however the response threads overlap, the
\* j-th write of a command text dispatches entry ((j - 1) mod L) of the
\* entry list of that text, or of the default entry list when the Program
\* does not list the text, L being the length of the list.  (Stated for the
\* writes the Program has an entry list for.)
C19_DispatchInTurn ==
    \A t \in tasks :
        dispatched(t) => t.index = (nth_write(t.w) - 1) % Len(t.entries)

\* the session has sent the ASCII command "id?\n" to a simulator whose
\* Program answers it with the single message "Q8iv-0000\n" after no delay
id_query ==
    /\ program = Program_id
    /\ call.entry = "issue_command"
    /\ written # <<>>
    /\ written[1] = encode_ascii(Line_id)

\* C20: with that simulator the send of "id?\n" does not fail and returns
\* exactly one data line, "Q8iv-0000" without its terminator.  (The thread
\* that answers, having no delay, queues its message, and the session in
\* its polling loop reads it, before the session's response timeout.)
C20_IdQueryAnswered ==
    (ended /\ id_query) =>
        result = Result("returned",
                        <<<<SubSeq(Line_Q8iv, 1, Len(Line_Q8iv) - 1)>>>>)

C20_Witness ==
    /\ ended
    /\ id_query
    /\ result.status = "returned"
    /\ Len(result.values) = 1
    /\ \E t \in tasks : t.pc = "done" /\ t.index = 0
----------------------------------------------------------------------------
(* Properties of the command index *)

\* C26: for every command index c, c.supports(m1, ..., mk) is true exactly
\* when every given header mode is among the modes c declares: true for a
\* declared mode, false for an undeclared one and false for a mixture that
\* holds an undeclared mode.
C26_SupportsIffAllDeclared ==
    ret.op = "supports" =>
        (ret.flag <=>
            {ret.out[n] : n \in 1..Len(ret.out)} \subseteq
                header_modes[cmd.idx])

\* a mixture of a declared and an undeclared mode, refused
C26_Witness ==
    /\ ret.op = "supports"
    /\ Len(ret.out) = 2
    /\ ret.out[1] \in header_modes[cmd.idx]
    /\ ret.out[2] \notin header_modes[cmd.idx]
    /\ ~ret.flag

----------------------------------------------------------------------------
(* Properties of the collection loop *)

\* the loop holds the success sentinel OK or as many data lines as the
\* caller requested
response_complete ==
    /\ pc = "receive"
    /\ \/ \E n \in 1..Len(lines) : lines[n] = RESPONSE_OK
       \/ /\ call.n_lines_requested.k = "int"
          /\ Len(lines) >= call.n_lines_requested.i

\* C27: once the collection loop holds the sentinel line OK (read with no
\* communication or target error), or as many data lines as the caller
\* requested, the session reads the byte stream no more, and the next thing
\* the send does is to return the lines it holds, whatever the time that
\* has passed.
C27_NoReadAfterCompletion ==
    [][response_complete =>
        /\ lines' = lines
        /\ errs' = errs
        /\ log' = log
        /\ written' = written
        /\ Len(out') >= Len(out)
        /\ in_waiting' >= in_waiting
        /\ pc' = "idle" => result' = Result("returned", values_of(lines))]_vars

\* a send that returned on the sentinel before the response timeout, with a
\* line of the device still unread
C27_Witness ==
    /\ ended
    /\ result.status = "returned"
    /\ \E n \in 1..Len(lines) : lines[n] = RESPONSE_OK
    /\ elapsed <= response_timeout
    /\ in_waiting > 0

\* the loop ends, and not because the response is complete or because of an
\* error just read: it ends because of time alone
time_ends ==
    /\ pc = "receive"
    /\ pc' = "idle"
    /\ ~response_complete
    /\ in_waiting' = in_waiting

\* both timeouts have passed: the response timeout since collection started
\* and the inter-response timeout since the last line or error
timed_out ==
    elapsed > response_timeout /\ silent > inter_response_timeout

\* C28: the collection loop ends because of time alone only when both the
\* response timeout has elapsed since collection started and nothing has
\* arrived for longer than the inter-response timeout: while lines keep
\* arriving within that window the loop goes on reading past the response
\* timeout, and once both have passed the session does nothing but end the
\* loop.
C28_EndsOnBothTimeouts ==
    [][/\ time_ends => timed_out
       /\ (pc = "receive" /\ timed_out /\ ~response_complete) =>
             \/ pc' = "idle" /\ lines' = lines /\ errs' = errs
             \/ pc' = "receive" /\ Len(out') > Len(out) /\ log' = log]_vars

\* past the response timeout the loop still reads: a line has just arrived
C28_Witness ==
    /\ pc = "receive"
    /\ elapsed > response_timeout
    /\ silent <= inter_response_timeout
    /\ Len(lines) > 0
    /\ ~response_complete

\* C29: however many entries the log holds (fewer than six included: the
\* first command of a session, a small log capacity), a send that received
\* a target error ends with the target-error failure, never with another
\* failure raised while the report of the error is built.
C29_TargetErrorReported ==
    (ended /\ \E n \in 1..Len(errs) : errs[n].id \in call.target_errors) =>
        /\ result.status # "IndexError"
        /\ result.status = "TargetError"

----------------------------------------------------------------------------
(* Properties of the log of a send *)

\* the entries a step appends to a log that evicts nothing
appended == SubSeq(log', Len(log) + 1, Len(log'))

\* the entry describes the transmission of the bytes b
describes(e, b) ==
    /\ e.type = "tx"
    /\ IF e.raw.k = "bytes" THEN e.raw.s = b /\ e.desc.s = hex(b)
       ELSE encode_ascii(e.desc.s) = b

is_error_line(line) == ERROR_FORMAT(strip(line)).ok
is_data_line(line) == ~is_error_line(line)
received_entry(e) == e.type \in {"rcv", "err"}

\* what a read of the lines in batch has to append: one receive entry with
\* the data lines, if there are any, then one error entry for each error,
\* each shown by its type and its text
read_report(batch) ==
    (IF SelectSeq(batch, is_data_line) = <<>> THEN <<>>
     ELSE <<[type |-> "rcv", text |-> SelectSeq(batch, is_data_line)]>>)
    \o [n \in 1..Len(SelectSeq(batch, is_error_line)) |->
           [type |-> "err",
            text |-> <<strip(SelectSeq(batch, is_error_line)[n])>>]]

report_of(es) ==
    [n \in 1..Len(es) |->
        [type |-> es[n].type,
         text |-> IF es[n].type = "rcv" THEN es[n].desc.s
                  ELSE <<es[n].raw.s>>]]

\* C30: every transmission of a send, the first one and each retry, appends
\* exactly one transmit entry, which describes the bytes just written; a
\* read that yields data lines appends one receive entry with those lines in
\* arrival order, and every error read appends one error entry; the receive
\* and error entries come after the transmit entry of their command and
\* before the next transmit entry.  (Stated for a log that evicts nothing.)
C30_LogOfASend ==
    [][maxlen.k = "none" =>
        /\ SubSeq(log', 1, Len(log)) = log
        /\ IF written' # written
           THEN /\ Len(written') = Len(written) + 1
                /\ \E n \in 1..Len(appended) :
                      /\ describes(appended[n], written'[Len(written')])
                      /\ \A m \in 1..Len(appended) :
                            /\ m # n => appended[m].type # "tx"
                            /\ m < n => received_entry(appended[m])
                            /\ m > n => appended[m].type \in {"get", "set"}
           ELSE \A m \in 1..Len(appended) : received_entry(appended[m])
        /\ report_of(SelectSeq(appended, received_entry)) =
              IF pc = "receive" /\ in_waiting > 0 /\ in_waiting' = 0
              THEN read_report(SubSeq(out, 1, in_waiting))
              ELSE <<>>
        /\ log' # <<>> => log'[1].type = "tx"]_vars

\* a retry: the entries of the read, then the transmit entry of the same
\* bytes as before
C30_Witness ==
    /\ maxlen.k = "none"
    /\ retries > 0
    /\ Len(written) = 2
    /\ \E n \in 2..Len(log) - 1 :
          /\ log[n].type = "rcv"
          /\ log[n + 1].type = "err"
          /\ n + 2 <= Len(log)
          /\ describes(log[n + 2], written[2])

\* C24: right after a simulator is constructed from a Program, and until
\* the first write, its output queue holds the Program's initial_out items
\* in order and the pending count of the port is their number.
C24_InitialOutQueued ==
    written = <<>> =>
        /\ out = program.initial_out
        /\ in_waiting = Len(program.initial_out)

\* no thread is between the append and the end of the update of the count
no_append_in_progress ==
    \A t \in tasks : t.pc \notin {"inc_load", "inc_store"}

\* C22: whenever no append or pop is in progress the pending count of the
\* port equals the number of queued items, and the session never pops from
\* an empty queue (no send ends with the IndexError of popleft).
C22_PendingCountIsQueueLength ==
    /\ no_append_in_progress => in_waiting = Len(out)
    /\ result.status # "IndexError"

\* the sum of the first n numbers of a list
RECURSIVE sum_to(_, _)
sum_to(ds, n) == IF n = 0 THEN 0 ELSE sum_to(ds, n - 1) + ds[n]

\* the number of the frame the k-th item belongs to
RECURSIVE frame_of(_, _)
frame_of(fs, k) ==
    IF fs = <<>> THEN 0
    ELSE IF k <= Head(fs) THEN 1
    ELSE 1 + frame_of(Tail(fs), k - Head(fs))

\* the thread t has chosen its response, a segmented one
segmented(t) ==
    /\ t.pc \in {"sleep", "inc_load", "inc_store", "done"}
    /\ t.entries[t.index + 1].divide

loaded_entries ==
    UNION {{program.data[n].entries[m] :
               m \in 1..Len(program.data[n].entries)} :
           n \in 1..Len(program.data)}

\* C25: a Program that from_dict returns has only actions of the action
\* table and, for RUN_CUSTOM, handlers that were registered, and no
\* dispatch of the simulator fails for want of a handler.
C25_RejectedAtLoad ==
    /\ ret.op = "from_dict" /\ ret.status = "ok" =>
          \A e \in loaded_entries :
              /\ e.action \in Action
              /\ e.action = "RUN_CUSTOM" => e.func.registered
    /\ \A t \in tasks : t.pc # "TypeError"

\* the send of the second session, to the simulator, has ended
replayed == ret.op = "original" /\ pc = "idle" /\ call # NoCall

\* C23: the send of the session that replays the generated Program returns
\* the data lines that the send of the original session returned.
C23_ReplayReturnsSameLines ==
    replayed /\ ret.status = "returned" =>
        result = Result("returned", ret.out)
----------------------------------------------------------------------------
(* Properties of the log handler *)

\* the handler was called in this step and raised on the entry it was given
handler_raised ==
    /\ Len(handled') > Len(handled)
    /\ handler_raises(log_handler, handled'[Len(handled')])

\* C31: with a log handler set, the handler is called once for every entry
\* appended, with that entry and once it is in the log; when the handler
\* raises, the send in progress fails, the entry that made it raise is the
\* newest of the log, and the send reads and writes no more.
C31_HandlerCalledAndAborts ==
    [][/\ SubSeq(handled', 1, Len(handled)) = handled
       /\ maxlen.k = "none" =>
             /\ SubSeq(log', 1, Len(log)) = log
             /\ SubSeq(log', Len(log) + 1, Len(log'))
                    = SubSeq(handled', Len(handled) + 1, Len(handled'))
       /\ Len(handled') > Len(handled) =>
             /\ log' # <<>>
             /\ log'[Len(log')] = handled'[Len(handled')]
       /\ handler_raised =>
             /\ pc' = "idle"
             /\ written' = written
             /\ result'.status = "HandlerError"]_vars

----------------------------------------------------------------------------
(* Properties of the simulator's port *)

\* the calls of readline counted so far
readline_cnt(cnt) ==
    IF Event_READLINE \in DOMAIN cnt THEN cnt[Event_READLINE] ELSE 0

\* this step is a call of readline
readline_called == readline_cnt(cmd_cnt') = readline_cnt(cmd_cnt) + 1

----------------------------------------------------------------------------
(* Properties of ProgramGenerator *)

\* the places of the transmit entries of a log whose text is c, in order
txs_of(l, c) ==
    SelectSeq([i \in 1..Len(l) |-> i],
              LAMBDA i : l[i].type = "tx" /\ l[i].desc.s = c)

\* the place of the first transmit entry after place i, or the end
next_tx(l, i) ==
    IF \E j \in (i + 1)..Len(l) : l[j].type = "tx"
    THEN CHOOSE j \in (i + 1)..Len(l) :
            /\ l[j].type = "tx"
            /\ \A m \in (i + 1)..(j - 1) : l[m].type # "tx"
    ELSE Len(l) + 1

\* the receive and error entries that follow the transmit entry at place i
\* before the next transmit entry: the chunks of its response
chunks_of(l, i) ==
    SelectSeq(SubSeq(l, i + 1, next_tx(l, i) - 1),
              LAMBDA e : e.type \in {"rcv", "err"})

\* the lines of a receive entry, the raw text of an error entry
chunk_data(e) == IF e.type = "rcv" THEN e.desc.s ELSE <<e.raw.s>>

RECURSIVE chunks_data(_)
chunks_data(chunks) ==
    IF chunks = <<>> THEN <<>>
    ELSE chunk_data(Head(chunks)) \o chunks_data(Tail(chunks))

RECURSIVE sum(_)
sum(ns) == IF ns = <<>> THEN 0 ELSE Head(ns) + sum(Tail(ns))

\* the entry e of a generated program answers as the chunks tell
entry_of_chunks(e, chunks) ==
    /\ e.data = chunks_data(chunks)
    /\ Len(chunks) = 1 => ~e.divide
    /\ Len(chunks) >= 2 =>
          /\ e.divide
          /\ e.action = "QUEUE_OUT_MANY"
          /\ e.frames = [k \in 1..Len(chunks) |->
                            Len(chunk_data(chunks[k]))]
    /\ e.divide => sum(e.frames) = Len(e.data)

\* the dict prog lists the commands of the log l, each once, and under
\* each command one entry per transmit entry of that text, in order, made
\* of the chunks of that transmit entry
program_of_log(prog, l) ==
    /\ {prog.data[n].cmd : n \in 1..(Len(prog.data) - 1)}
          = {l[i].desc.s : i \in {j \in 1..Len(l) : l[j].type = "tx"}}
    /\ \A n, m \in 1..Len(prog.data) :
          prog.data[n].cmd = prog.data[m].cmd => n = m
    /\ \A n \in 1..(Len(prog.data) - 1) :
          /\ Len(prog.data[n].entries) = Len(txs_of(l, prog.data[n].cmd))
          /\ \A k \in 1..Len(prog.data[n].entries) :
                entry_of_chunks(prog.data[n].entries[k],
                                chunks_of(l, txs_of(l, prog.data[n].cmd)[k]))

chunk_places(l, i) ==
    SelectSeq([j \in 1..(next_tx(l, i) - 1 - i) |-> i + j],
              LAMBDA p : l[p].type \in {"rcv", "err"})

\* the delay a generated entry records for its k-th chunk
delay_of(e, k) == IF e.divide THEN e.delays[k] ELSE e.delay

RECURSIVE since(_, _, _)
\* the time from the entry at place i to the entry at place p of the log:
\* every entry carries the time since the entry before it
since(l, i, p) == IF p <= i THEN 0 ELSE l[p].proctime + since(l, i, p - 1)

\* for every chunk of every transmit entry of the log l, the delay the
\* dict prog records is delta(l, place of the transmit entry, place of
\* the chunk)
delays_are(prog, l, delta(_, _, _)) ==
    \A n \in 1..(Len(prog.data) - 1) :
        \A k \in 1..Len(prog.data[n].entries) :
            \A c \in 1..Len(chunk_places(l, txs_of(l, prog.data[n].cmd)[k])) :
                delay_of(prog.data[n].entries[k], c)
                    = delta(l, txs_of(l, prog.data[n].cmd)[k],
                            chunk_places(l, txs_of(l, prog.data[n].cmd)[k])[c])

\* the time from the entry just before place p to the entry at place p
since_previous(l, i, p) == l[p].proctime

C39_GenerationNeverFails ==
    ret.op = "ProgramGenerator" => ret.status = "ok"

\* C40: loading a Program leaves the dict it is loaded from as it was: every
\* call of gen() on a generator succeeds and gives the Program of the
\* generated dict, the dict of the generator stays the generated one, and
\* write() succeeds whether or not gen() was called before.
C40_LoadLeavesDict ==
    ret.op \in {"gen", "write"} =>
        /\ ret.status = "ok"
        /\ ret.out = ProgramGenerator(log)
        /\ ret.op = "gen" =>
              program = from_dict(ProgramGenerator(log), NoCustom).program

\* the thread u has messages left to queue: in the sleep it is in or in a
\* later one
items_left(u) ==
    /\ u.pc \in {"sleep", "inc_load", "inc_store"}
    /\ \/ u.todo # <<>>
       \/ \E n \in 1..Len(u.frames) : u.frames[n].items # <<>>

\* the thread t queues a message in this step
queues_out(t) ==
    /\ t \in tasks
    /\ t.pc = "sleep"
    /\ t.todo # <<>>
    /\ [t EXCEPT !.todo = Tail(t.todo), !.pc = "inc_load"] \in tasks'
    /\ out' = Append(out, Head(t.todo))

\* C36: when write A reaches the simulator before write B, every message
\* for A is queued before every message for B: whenever the thread of a
\* write queues a message, no thread of an earlier write has messages left
\* to queue.
C36_WritesAnsweredInOrder ==
    [][\A t \in tasks : queues_out(t) =>
          \A u \in tasks : u.w < t.w => ~items_left(u)]_vars

\* C37: a send with n_lines_requested = n returns at most n data lines,
\* whatever the device does, also when it delivers more than n lines
\* before one read.
C37_AtMostLinesRequested ==
    (result.status = "returned" /\ call.n_lines_requested.k = "int") =>
        Len(result.values) <= call.n_lines_requested.i

\* the messages the program p answers the command text c with
answers_to(p, c) ==
    UNION {{Program_getitem(p, c).cmd_data.entries[e].data[k] :
               k \in 1..Len(Program_getitem(p, c).cmd_data.entries[e].data)} :
              e \in 1..Len(Program_getitem(p, c).cmd_data.entries)}

\* C35: every data line a send returns was emitted in response to the
\* transmission of that send: a line that an earlier command left unread
\* is never returned by a later command.
C35_LinesOfOwnTransmission ==
    result.status = "returned" =>
        \A n \in 1..Len(lines) :
            lines[n] \in answers_to(program, command_text(tx0))

\* the transmit entries of the log l
tx_entries(l) == SelectSeq(l, LAMBDA e : e.type = "tx")

\* C38: every payload Command.binary() gives starts with a byte greater
\* than 0x80 and the simulator takes it for binary, every ASCII command
\* line for ASCII; either is looked up in the Program under the text the
\* session logged for it, the hex text of the bytes for a binary one.
C38_EncodingTest ==
    /\ \A w \in 1..Len(written) :
          IF tx_entries(log)[w].raw.k = "bytes"
          THEN written[w][1] > BIN
          ELSE \A n \in 1..Len(written[w]) : written[w][n] < BIN
    /\ \A t \in tasks :
          /\ t.cmd = tx_entries(log)[t.w].desc.s
          /\ tx_entries(log)[t.w].raw.k = "bytes" => t.cmd = hex(written[t.w])
          /\ t.pc # "KeyError"
          /\ t.entries
                = Program_getitem(program,
                                  tx_entries(log)[t.w].desc.s).cmd_data.entries

\* a binary command whose header is BINARY alone, found under its hex text
C38_Witness ==
    \E t \in tasks :
        /\ written[t.w][1] = BIN + 1
        /\ tx_entries(log)[t.w].raw.k = "bytes"
        /\ t.cmd = program.data[1].cmd
        /\ t.entries = program.data[1].entries

====
